---- MODULE Spec2Model ----
(***************************************************************************)
(* PyLink: the shared S2S protocol base (protocols/ircs2s_common.py).      *)
(* The network state (servers, users, channels), the inbound handlers and  *)
(* the outbound builders that change it, the netsplit cascade (_squit),    *)
(* and the incremental UID generator.                                      *)
(***************************************************************************)
EXTENDS Integers, Sequences, FiniteSets, TLC

VARIABLES servers, users, channels, watch, last, gen, issued, line, parsed,
          REMOTE_IN_USE, stacks, reply, replylock, lastexit, given, proto,
          overridden

vars == <<servers, users, channels, watch, last, gen, issued, line, parsed,
          REMOTE_IN_USE, stacks, reply, replylock, lastexit, given, proto,
          overridden>>
netvars == <<servers, users, channels, watch, last>>
genvars == <<gen, issued>>
parsevars == <<line, parsed>>
remotevars == <<REMOTE_IN_USE, stacks, reply, replylock, lastexit, given, overridden>>
protovars == <<proto>>

----------------------------------------------------------------------------
(* Bounds of the model and the finite universes the inputs are drawn from. *)

\* Most remote servers (other than the uplink) present at one time.
MaxServers == 3
\* Most users present at one time.
MaxUsers == 4
\* Most channel memberships at one time.
MaxJoins == 3
\* Largest alphabet and widest suffix of a UID generator.
MaxAlpha == 4
MaxWidth == 3
\* Calls of next_uid() made after the identifier space is used up.
ExtraCalls == 2

\* Python's None, where a record is expected and where a string is expected.
None == [isNone |-> TRUE]
NoneStr == "<None>"

\* self.sid and self.uplink of the network.
sid == "0A"
uplink == "0B"

\* Remote servers that may be introduced, and the uplinks each may arrive with.
RemoteSids == {"AC", "AD", "AE", "ad"}
UplinkChoices(s) ==
    CASE s = "AC" -> {"0B"}
      [] s = "AD" -> {"AC", "ad"}
      [] s = "AE" -> {"AD"}
      [] s = "ad" -> {"0B"}
      [] OTHER -> {}
ServerName(s) ==
    CASE s = "0A" -> "pylink.int"
      [] s = "0B" -> "Hub.Net"
      [] s = "AC" -> "c.net"
      [] s = "AD" -> "d.net"
      [] s = "AE" -> "e.net"
      [] s = "ad" -> "dd.net"
      [] OTHER -> "?"
AllSids == {sid, uplink} \cup RemoteSids
\* The order servers are introduced in: a server arrives after the present
\* ones that stand before it here.
SidSeq == <<"AC", "ad", "AD", "AE">>
SidAt(s) == CHOOSE i \in DOMAIN SidSeq : SidSeq[i] = s

\* Users that may be introduced: the UID starts with the SID of its server.
UidSeq == <<"0AAAA", "ACAAA", "ADAAA", "AEAAA", "adAAA">>
AllUids == {UidSeq[i] : i \in DOMAIN UidSeq}
HomeOf(u) ==
    CASE u = "0AAAA" -> "0A"
      [] u = "ACAAA" -> "AC"
      [] u = "ADAAA" -> "AD"
      [] u = "AEAAA" -> "AE"
      [] u = "adAAA" -> "ad"
      [] OTHER -> "?"
NickOf(u) ==
    CASE u = "0AAAA" -> "pylink"
      [] u = "ACAAA" -> "cat"
      [] u = "ADAAA" -> "dog"
      [] u = "AEAAA" -> "eel"
      [] u = "adAAA" -> "ant"
      [] OTHER -> "?"
AllNicks == {NickOf(u) : u \in AllUids}

Chans == {"#a", "#b"}

\* Targets an inbound SQUIT may name: a SID, a server name (in either
\* spelling), or a text that names nothing.
SquitTargets == AllSids \cup {"pylink.int", "hub.net", "c.net", "zz"}
\* Targets an inbound KICK or KILL may name: a UID, a nick, or neither.
UserTargets == AllUids \cup {"cat", "ghost"}

----------------------------------------------------------------------------
(* Strings and the insertion-ordered server dict.                          *)

\* str.lower() on the strings of the model.
Lower(s) ==
    CASE s = "0A" -> "0a"
      [] s = "0B" -> "0b"
      [] s = "AC" -> "ac"
      [] s = "AD" -> "ad"
      [] s = "AE" -> "ae"
      [] s = "Hub.Net" -> "hub.net"
      [] s = "0AAAA" -> "0aaaa"
      [] s = "ACAAA" -> "acaaa"
      [] s = "ADAAA" -> "adaaa"
      [] s = "AEAAA" -> "aeaaa"
      [] s = "adAAA" -> "adaaa"
      [] s = "SQUIT" -> "squit"
      [] s = "PART" -> "part"
      [] s = "KICK" -> "kick"
      [] s = "QUIT" -> "quit"
      [] s = "TIME" -> "time"
      [] s = "ENCAP" -> "encap"
      [] s = "EVENTS" -> "events"
      [] s = "FOO" -> "foo"
      [] s = "VERSION" -> "version"
      [] OTHER -> s

\* str.upper() on the strings of the model.
Upper(s) ==
    CASE s = "squit" -> "SQUIT"
      [] s = "quit" -> "QUIT"
      [] s = "pylink" -> "PYLINK"
      [] s = "zz" -> "ZZ"
      [] s = "bye" -> "BYE"
      [] s = "x" -> "X"
      [] s = "#a" -> "#A"
      [] OTHER -> s

\* self.servers is a dict: a sequence of entries in insertion order, one per
\* key. An entry is the Server object: name, uplink, users, internal.
SKeys(sv) == {sv[i].sid : i \in DOMAIN sv}
SGet(sv, k) == sv[CHOOSE i \in DOMAIN sv : sv[i].sid = k]
SDel(sv, k) == SelectSeq(sv, LAMBDA e : e.sid # k)
SDiscardUser(sv, u) == [i \in DOMAIN sv |-> [sv[i] EXCEPT !.users = @ \ {u}]]
SAddUser(sv, k, u) ==
    [i \in DOMAIN sv |-> IF sv[i].sid = k THEN [sv[i] EXCEPT !.users = @ \cup {u}] ELSE sv[i]]

\* A set of UIDs as the list its iteration yields.
SetToSeq(S) == SelectSeq(UidSeq, LAMBDA u : u \in S)
SeqToSet(q) == {q[i] : i \in DOMAIN q}

\* dict without one key.
DictDel(d, k) == [x \in DOMAIN d \ {k} |-> d[x]]

----------------------------------------------------------------------------
(* The network state store (classes.IRCNetwork), as the handlers use it.   *)

\* The state one handler call works on.
St(sv, us, ch) == [servers |-> sv, users |-> us, channels |-> ch]

\* irc.get_server(uid): the server whose users hold the UID.
get_server(sv, u) ==
    IF \E i \in DOMAIN sv : u \in sv[i].users
    THEN sv[CHOOSE i \in DOMAIN sv : u \in sv[i].users].sid
    ELSE NoneStr

is_internal_server(sv, s) == s \in SKeys(sv) /\ SGet(sv, s).internal
is_internal_client(sv, u) ==
    \E i \in DOMAIN sv : sv[i].internal /\ u \in sv[i].users

\* irc.nick_to_uid(nick): the UID of the user with that nick, or None.
nick_to_uid(us, nick) ==
    IF \E u \in DOMAIN us : us[u].nick = nick
    THEN CHOOSE u \in DOMAIN us : us[u].nick = nick
    ELSE NoneStr

\* A user as it is introduced: in no channel, with no modes, not away.
NewUser(nick) == [nick |-> nick, channels |-> {}, modes |-> {}, away |-> ""]

\* A channel as it is made: no members, no topic.
EmptyChannel == [users |-> {}, topic |-> "", topicset |-> FALSE, modes |-> {}]

\* self._channels[name]: the channel, made empty on first access.
ChannelTouch(ch, name) ==
    IF name \in DOMAIN ch THEN ch ELSE ch @@ (name :> EmptyChannel)

\* Channel.remove_user(uid) on self._channels[name].
ChannelRemoveUser(ch, name, u) ==
    LET c == ChannelTouch(ch, name)
    IN  [c EXCEPT ![name].users = @ \ {u}]

\* irc._remove_client(uid): the user leaves every channel, a channel left
\* empty is dropped, and the user leaves the user table and its server.
\* A UID that is no user fails on the user table (KeyError).
_remove_client(st, u) ==
    LET left == [c \in DOMAIN st.channels |->
                    [st.channels[c] EXCEPT !.users = @ \ {u}]]
        kept == {c \in DOMAIN left : left[c].users # {}}
    IN  [servers |-> SDiscardUser(st.servers, u),
         users |-> DictDel(st.users, u),
         channels |-> [c \in kept |-> left[c]]]

----------------------------------------------------------------------------
(* IRCCommonProtocol: identifier resolution.                               *)

\* _get_SID(sname): the lowered text if it is a key, else the first server
\* of that name, else the text as given.
_get_SID(sv, sname) ==
    LET name == Lower(sname)
    IN  IF name \in SKeys(sv) THEN name
        ELSE IF \E i \in DOMAIN sv : Lower(sv[i].name) = name
             THEN sv[CHOOSE i \in DOMAIN sv :
                        /\ Lower(sv[i].name) = name
                        /\ \A j \in 1..(i-1) : Lower(sv[j].name) # name].sid
             ELSE sname

\* _get_UID(target): the text if it is a UID, else the UID of that nick,
\* else the text as given.
_get_UID(us, target) ==
    IF target \in DOMAIN us THEN target
    ELSE IF nick_to_uid(us, target) # NoneStr THEN nick_to_uid(us, target)
         ELSE target

----------------------------------------------------------------------------
(* IRCCommonProtocol._squit: the netsplit cascade.                         *)

\* What a call leaves: the exception it raised ("" for none), the state it
\* left, and the value it returned.
Outcome(exc, st, ret) == [exc |-> exc, st |-> st, ret |-> ret]

\* old_channels[name] read now: old_channels is a copy of the dict, its
\* values are the channel objects themselves, so a read sees the members
\* the channel has now (none once _remove_client dropped it as empty).
LiveChannel(st, name) ==
    IF name \in DOMAIN st.channels THEN st.channels[name] ELSE EmptyChannel

\* The loop over the users of split_server (lines 168-179): each is listed
\* as affected, its nick is listed under every channel of old_channels that
\* holds it, and it is removed. acc = [st, users, nicks].
RECURSIVE SquitUserLoop(_, _, _)
SquitUserLoop(todo, old_channels, acc) ==
    IF todo = <<>> THEN acc
    ELSE LET user == Head(todo)
             nick == acc.st.users[user].nick
             nicks == [name \in DOMAIN acc.nicks \cup
                            {c \in old_channels : user \in LiveChannel(acc.st, c).users} |->
                         IF user \in LiveChannel(acc.st, name).users
                         THEN (IF name \in DOMAIN acc.nicks THEN acc.nicks[name] ELSE <<>>)
                                \o <<nick>>
                         ELSE acc.nicks[name]]
         IN  SquitUserLoop(Tail(todo), old_channels,
                           [st |-> _remove_client(acc.st, user),
                            users |-> Append(acc.users, user),
                            nicks |-> nicks])

RECURSIVE _squit(_, _, _)
RECURSIVE SquitServerLoop(_, _, _, _, _)

\* The test of line 141 without the uplink.
IsFatalTargetOwnOnly(split_server) == split_server = sid

\* The test of line 141: the target is this server or its uplink.
IsFatalTarget(split_server) == split_server \in {sid, uplink}

\* Lines 165-166 without the servers of the inner call.
SquitAccumulateUsersOnly(acc, r) ==
    [exc |-> "", st |-> r.st, users |-> acc.users \o r.ret.users,
     servers |-> acc.servers]

\* Lines 165-166: the users and servers the inner call reports are added.
SquitAccumulate(acc, r) ==
    [exc |-> "", st |-> r.st, users |-> acc.users \o r.ret.users,
     servers |-> acc.servers \o r.ret.affected_servers]

\* Line 168 reading no users.
SquitUsersOfNone(st, split_server) == <<>>

\* Line 168: the users of split_server, copied, in the order of iteration.
SquitUsersOf(st, split_server) == SetToSeq(SGet(st.servers, split_server).users)

\* The loop over old_servers (lines 159-166): every server whose uplink is
\* split_server is split by a call of _squit on its SID, and the users and
\* servers that call reports are added to this call's lists.
\* acc = [exc, st, users, servers]. A call that returned None fails the
\* subscript args['users'] (TypeError).
SquitServerLoop(old_servers, i, split_server, acc, stack) ==
    IF i > Len(old_servers) \/ acc.exc # "" THEN acc
    ELSE IF old_servers[i].uplink # split_server
    THEN SquitServerLoop(old_servers, i + 1, split_server, acc, stack)
    ELSE LET r == _squit(acc.st, old_servers[i].sid, stack)
         IN  IF r.exc # ""
             THEN [acc EXCEPT !.exc = r.exc, !.st = r.st]
             ELSE IF r.ret = None
             THEN [acc EXCEPT !.exc = "TypeError", !.st = r.st]
             ELSE SquitServerLoop(old_servers, i + 1, split_server,
                                  SquitAccumulate(acc, r), stack)

\* _squit(numeric, command, args) with args[0] = target, on state st.
\* stack holds the servers the calls in progress are splitting: a call that
\* comes back to one of them repeats the call above it on an unchanged
\* state, so the recursion never ends and Python raises RecursionError.
_squit(st, target, stack) ==
    LET split_server == _get_SID(st.servers, target)
    IN  IF IsFatalTarget(split_server)
        THEN Outcome("ProtocolError", st, None)
        ELSE IF split_server \notin SKeys(st.servers)
        THEN Outcome("", st, None)
        ELSE IF split_server \in stack
        THEN Outcome("RecursionError", st, None)
        ELSE
        LET old_servers == st.servers
            old_channels == DOMAIN st.channels
            l1 == SquitServerLoop(old_servers, 1, split_server,
                                  [exc |-> "", st |-> st, users |-> <<>>,
                                   servers |-> <<split_server>>],
                                  stack \cup {split_server})
        IN  IF l1.exc # "" THEN Outcome(l1.exc, l1.st, None)
            ELSE IF split_server \notin SKeys(l1.st.servers)
            THEN Outcome("KeyError", l1.st, None)
            ELSE
            LET l2 == SquitUserLoop(SquitUsersOf(l1.st, split_server),
                                    old_channels,
                                    [st |-> l1.st, users |-> l1.users,
                                     nicks |-> <<>>])
                serverdata == SGet(l2.st.servers, split_server)
                st2 == [l2.st EXCEPT !.servers = SDel(@, split_server)]
            IN  Outcome("", st2,
                        [target |-> split_server,
                         users |-> l2.users,
                         name |-> serverdata.name,
                         uplink |-> serverdata.uplink,
                         nicks |-> l2.nicks,
                         serverdata |-> serverdata,
                         channeldata |-> [c \in old_channels |->
                                             [st.channels[c] EXCEPT
                                                 !.users = LiveChannel(st2, c).users]],
                         affected_servers |-> l1.servers])

----------------------------------------------------------------------------
(* IRCS2SProtocol: the inbound handlers that change membership and users.  *)

\* list.remove(x): the list without the first x.
ListRemove(q, x) ==
    IF \E i \in DOMAIN q : q[i] = x
    THEN LET k == CHOOSE i \in DOMAIN q : q[i] = x /\ \A j \in 1..(i-1) : q[j] # x
         IN  SubSeq(q, 1, k - 1) \o SubSeq(q, k + 1, Len(q))
    ELSE q

\* PartStep without the discard from the user's channel set.
PartStepKeepsChannel(acc, source, channel) ==
    LET member == /\ channel \in DOMAIN acc.st.channels
                  /\ source \in acc.st.channels[channel].users
    IN  [st |-> [acc.st EXCEPT !.channels = ChannelRemoveUser(@, channel, source)],
         channels |-> IF member THEN acc.channels ELSE ListRemove(acc.channels, channel)]

\* One round of the loop of handle_part (lines 645-659) for one channel.
\* acc = [st, channels].
PartStep(acc, source, channel) ==
    LET member == /\ channel \in DOMAIN acc.st.channels
                  /\ source \in acc.st.channels[channel].users
        ch2 == ChannelRemoveUser(acc.st.channels, channel, source)
        us2 == IF source \in DOMAIN acc.st.users
               THEN [acc.st.users EXCEPT ![source].channels = @ \ {channel}]
               ELSE acc.st.users
    IN  [st |-> [acc.st EXCEPT !.channels = ch2, !.users = us2],
         channels |-> IF member THEN acc.channels ELSE ListRemove(acc.channels, channel)]

RECURSIVE PartLoop(_, _, _)
PartLoop(todo, source, acc) ==
    IF todo = <<>> THEN acc
    ELSE PartLoop(Tail(todo), source, PartStep(acc, source, Head(todo)))

\* handle_part(source, command, args): args[0] is the list of channels (the
\* text between the commas), reason is args[1] or ''.
handle_part(st, source, chanlist, reason) ==
    LET l == PartLoop(chanlist, source, [st |-> st, channels |-> chanlist])
    IN  Outcome("", l.st,
                IF l.channels # <<>>
                THEN [channels |-> l.channels, text |-> reason]
                ELSE None)

\* handle_kick(source, command, args): args = [channel, target, reason].
handle_kick(st, source, channel, target, reason) ==
    LET kicked == _get_UID(st.users, target)
        r == handle_part(st, kicked, <<channel>>, reason)
    IN  Outcome("", r.st, [channel |-> channel, target |-> kicked, text |-> reason])

\* handle_quit(numeric, command, args).
handle_quit(st, numeric, text) ==
    IF numeric \in DOMAIN st.users
    THEN Outcome("", _remove_client(st, numeric), [text |-> text])
    ELSE Outcome("KeyError", st, None)

\* handle_topic(numeric, command, args): args = [channel, topic].
handle_topic(st, numeric, channel, topic) ==
    LET ch == ChannelTouch(st.channels, channel)
    IN  Outcome("", [st EXCEPT !.channels =
                         [ch EXCEPT ![channel].topic = topic, ![channel].topicset = TRUE]],
                [channel |-> channel, setter |-> numeric, text |-> topic,
                 oldtopic |-> ch[channel].topic])

\* Text as the list of its characters: str.split(" "), " ".join(), and the
\* slice [1:-1].
RECURSIVE SplitSpace(_)
SplitSpace(text) ==
    IF \E i \in DOMAIN text : text[i] = " "
    THEN LET k == CHOOSE i \in DOMAIN text : text[i] = " " /\ \A j \in 1..(i-1) : text[j] # " "
         IN  <<SubSeq(text, 1, k - 1)>> \o SplitSpace(SubSeq(text, k + 1, Len(text)))
    ELSE <<text>>
RECURSIVE JoinSpace(_)
JoinSpace(words) ==
    IF words = <<>> THEN <<>>
    ELSE IF Len(words) = 1 THEN words[1]
    ELSE words[1] \o <<" ">> \o JoinSpace(Tail(words))
SliceInner(text) == SubSeq(text, 2, Len(text) - 1)

\* irc.get_friendly_name(entity): the nick of a user, the name of a server,
\* KeyError for anything else.
get_friendly_name(st, entity) ==
    IF entity \in DOMAIN st.users THEN st.users[entity].nick
    ELSE IF entity \in SKeys(st.servers) THEN SGet(st.servers, entity).name
    ELSE NoneStr

\* handle_kill(source, command, args): args = [target, reason]. The empty
\* bracketed message reaches log.warning(..., irc.name, ...), where no name
\* irc is bound (NameError), after the user was removed.
handle_kill(st, source, target, reason) ==
    LET killed == _get_UID(st.users, target)
        data == IF killed \in DOMAIN st.users THEN st.users[killed] ELSE None
        st2 == IF data # None THEN _remove_client(st, killed) ELSE st
        first == SplitSpace(reason)[1]
        raw == \E i \in DOMAIN first : first[i] = "!"
        killmsg == IF raw THEN SliceInner(JoinSpace(Tail(SplitSpace(reason))))
                   ELSE reason
    IN  IF raw /\ killmsg = <<>>
        THEN Outcome("NameError", st2, None)
        ELSE Outcome("", st2, [target |-> killed, text |-> killmsg, userdata |-> data])

\* Reasons an inbound KILL may carry: a preformatted text, a raw
\* "killer!identity (message)" text, one with an empty message, and one
\* with no message.
KillReasons ==
    { <<"K", " ", "(", "x", ")">>,
      <<"h", "!", "G", " ", "(", "t", ")">>,
      <<"h", "!", "G", " ", "(", ")">>,
      <<"h", "!", "G">> }

\* The target of a PRIVMSG or NOTICE: the text before the first '@' that
\* is followed by a server, and that server (NoneStr when there is none).
MsgTarget(left, server) == [left |-> left, server |-> server]

\* '@' in raw_target: an '@' before a server, or the '@' of a status
\* prefix.
HasAt(raw) == raw.server # NoneStr \/ raw.left = "@#a"

\* text.lstrip of the prefix characters of the network.
LStripPrefixes(p, text) ==
    IF text = "@#a" /\ \E m \in DOMAIN p.prefixmodes : p.prefixmodes[m] = "@"
    THEN "#a" ELSE text

\* irc.is_channel(text): the text begins with '#'.
is_channel(text) == text \in {"#a", "#b"}

\* irc.is_server_name(text): the text is a host name with a dot.
is_server_name(text) == text \in {"c.net", "d.net", "Hub.Net", "hub.net", "x.y"}

\* '@' + target[1:] of a target that begins with '='.
CoerceOpModerated(target) == IF target = "=#a" THEN "@#a" ELSE target

\* handle_privmsg(source, command, args): args = [raw target, text]. The
\* result is what the handler leaves and the lines it sends.
handle_privmsg(st, p, source, raw, text) ==
    LET split == HasAt(raw) /\ ~is_channel(LStripPrefixes(p, raw.left))
        target == _get_UID(st.users, raw.left)
        sid_ == _get_SID(st.servers, raw.server)
        not_found == \/ target \notin DOMAIN st.users
                     \/ sid_ = ""
                     \/ sid_ # get_server(st.servers, target)
    IN  IF split /\ ~is_server_name(raw.server)
        THEN [out |-> Outcome("", st, None), sent |-> <<>>]
        ELSE IF split /\ not_found
        THEN [out |-> Outcome("", st, None),
              sent |-> <<<<sid, "401", source, raw, "No such nick">>>>]
        ELSE [out |-> Outcome("", st,
                              [target |-> IF split THEN target
                                          ELSE IF raw.server = NoneStr
                                               THEN CoerceOpModerated(target)
                                               ELSE raw,
                               text |-> text]),
              sent |-> <<>>]

\* A mode change: '+' or '-' and the mode character.
ModeChange(sign, char) == <<sign, char>>

\* irc.parse_modes(target, modestrings): the changes in the order given.
parse_modes(modestring) == modestring

\* irc.apply_modes(target, changedmodes) on a mode set.
RECURSIVE ApplyModeChanges(_, _)
ApplyModeChanges(modes, changedmodes) ==
    IF changedmodes = <<>> THEN modes
    ELSE ApplyModeChanges(IF Head(changedmodes)[1] = "+"
                          THEN modes \cup {Head(changedmodes)[2]}
                          ELSE modes \ {Head(changedmodes)[2]},
                          Tail(changedmodes))
apply_modes(st, target, changedmodes) ==
    IF target \in DOMAIN st.users
    THEN [st EXCEPT !.users[target].modes = ApplyModeChanges(@, changedmodes)]
    ELSE IF target \in DOMAIN st.channels
    THEN [st EXCEPT !.channels[target].modes = ApplyModeChanges(@, changedmodes)]
    ELSE st

\* A hook a handler calls itself (call_hooks).
Hook(source, command, data) == <<source, command, data>>

\* Line 595: away_status != bool(old_away_status), where old_away_status
\* is the away text of the user.
AwayChanged(u, away_status) ==
    away_status # (u.away # "")

\* _check_umode_away_change(uid) (lines 586-597): the hooks it calls.
_check_umode_away_change(st, p, uid) ==
    IF uid \in DOMAIN st.users /\ "away" \in DOMAIN p.umodes
    THEN LET u == st.users[uid]
             away_status == p.umodes["away"] \in u.modes
         IN  IF AwayChanged(u, away_status)
             THEN <<Hook(uid, "AWAY", [text |-> IF away_status THEN "Away" ELSE ""])>>
             ELSE <<>>
    ELSE <<>>

\* _check_oper_status_change(uid, modes) (lines 599-612): the hooks it
\* calls.
_check_oper_status_change(st, p, uid, modes) ==
    IF uid \in DOMAIN st.users /\ \E i \in DOMAIN modes : modes[i] = ModeChange("+", "o")
    THEN <<Hook(uid, "CLIENT_OPERED", [text |-> "IRC Operator"])>>
    ELSE <<>>

\* handle_mode(source, command, args): args = [target, modestring]. The
\* result is what the handler leaves and the hooks it called.
handle_mode(st, p, source, rawtarget, modestring) ==
    LET target == _get_UID(st.users, rawtarget)
        channeldata == IF is_channel(target)
                       THEN ChannelTouch(st.channels, target)[target] ELSE None
        st1 == IF is_channel(target)
               THEN [st EXCEPT !.channels = ChannelTouch(@, target)] ELSE st
        changedmodes == parse_modes(modestring)
        st2 == apply_modes(st1, target, changedmodes)
    IN  [out |-> Outcome("", st2, [target |-> target, modes |-> changedmodes,
                                   channeldata |-> channeldata]),
         hooks |-> IF target \in DOMAIN st2.users
                   THEN _check_umode_away_change(st2, p, target)
                            \o _check_oper_status_change(st2, p, target, changedmodes)
                   ELSE <<>>]

----------------------------------------------------------------------------
(* IRCS2SProtocol.handle_events: the dispatcher.                           *)

\* A line as handle_events has it after parse_args (line 356): whether
\* field 0 begins with ':', and the arguments, field 0 without that ':'.
Line(colon, fields) == [colon |-> colon, fields |-> fields]

\* args[0].split(',') of handle_part on the channel lists of the model.
SplitComma(text) == IF text = "#a,#b" THEN <<"#a", "#b">> ELSE <<text>>

\* The dict {} that handle_version returns.
EmptyDict == [x \in {} |-> x]

\* The names n for which the class has an attribute handle_n that a line of
\* the model can name: the handlers of inbound commands, and handle_events
\* itself.
InboundCommands == {"squit", "part", "kick", "quit", "time", "version"}
HandlerNames == InboundCommands \cup {"events"}

\* func(sender, command, args) for the attribute handle_<name>. A missing
\* argument is an IndexError where the handler reads it; handle_events is
\* a method of one argument (TypeError).
CallHandler(st, name, sender, args) ==
    CASE name = "squit" ->
           IF Len(args) < 1 THEN Outcome("IndexError", st, None)
           ELSE _squit(st, args[1], {})
      [] name = "part" ->
           IF Len(args) < 1 THEN Outcome("IndexError", st, None)
           ELSE handle_part(st, sender, SplitComma(args[1]),
                            IF Len(args) >= 2 THEN args[2] ELSE "")
      [] name = "kick" ->
           IF Len(args) < 2 THEN Outcome("IndexError", st, None)
           ELSE handle_kick(st, sender, args[1], args[2],
                            IF Len(args) >= 3 THEN args[3] ELSE "")
      [] name = "quit" ->
           LET r == handle_quit(st, sender, IF Len(args) >= 1 THEN args[1] ELSE "")
           IN  IF r.exc = "" /\ Len(args) < 1 THEN Outcome("IndexError", r.st, None)
               ELSE r
      [] name = "time" ->
           IF Len(args) < 1 THEN Outcome("IndexError", st, None)
           ELSE Outcome("", st, [target |-> args[1]])
      [] name = "version" -> Outcome("", st, EmptyDict)
      [] name = "events" -> Outcome("TypeError", st, None)

\* The test of line 386 for servers alone.
IsRoutedWrongWayServerOnly(st, sender) == is_internal_server(st.servers, sender)

\* The test of line 386: the sender is a client or a server of this side.
IsRoutedWrongWay(st, sender) ==
    is_internal_client(st.servers, sender) \/ is_internal_server(st.servers, sender)

\* What handle_events leaves: the outcome, with the sender and the command
\* it found, the handler it called ("" for none) and what that returned.
Event(out, sender, command, func, parsed_args) ==
    [exc |-> out.exc, st |-> out.st, ret |-> out.ret,
     sender |-> sender, command |-> command, func |-> func,
     parsed_args |-> parsed_args]

\* Lines 403-404 with the test "if parsed_args".
HookOfNonEmpty(sender, command, parsed_args) ==
    IF parsed_args # None /\ parsed_args # EmptyDict
    THEN <<sender, command, parsed_args>> ELSE None

\* Lines 403-404: the hook of a result that is not None.
HookOf(sender, command, parsed_args) ==
    IF parsed_args # None THEN <<sender, command, parsed_args>> ELSE None

\* handle_events from line 358 on.
handle_events(st, data) ==
    LET first == data.fields[1]
        sender_sid == _get_SID(st.servers, first)
        sender_uid == _get_UID(st.users, first)
        insert == /\ sender_sid \notin SKeys(st.servers)
                  /\ sender_uid \notin DOMAIN st.users
                  /\ ~data.colon
        sender == IF sender_sid \in SKeys(st.servers) THEN sender_sid
                  ELSE IF sender_uid \in DOMAIN st.users THEN sender_uid
                  ELSE IF ~data.colon THEN uplink
                  ELSE first
        args1 == IF insert THEN <<sender>> \o data.fields ELSE data.fields
    IN  IF Len(args1) < 2
        THEN Event(Outcome("IndexError", st, None), sender, "", "", None)
        ELSE
        LET raw_command == Upper(args1[2])
            args2 == SubSeq(args1, 3, Len(args1))
        IN  IF IsRoutedWrongWay(st, sender)
            THEN Event(Outcome("", st, None), sender, raw_command, "", None)
            ELSE IF raw_command = "ENCAP" /\ Len(args2) < 2
            THEN Event(Outcome("IndexError", st, None), sender, "", "", None)
            ELSE
            LET command == IF raw_command = "ENCAP" THEN args2[2] ELSE raw_command
                args == IF raw_command = "ENCAP" THEN SubSeq(args2, 3, Len(args2)) ELSE args2
            IN  IF Lower(command) \notin HandlerNames
                THEN Event(Outcome("", st, None), sender, command, "", None)
                ELSE LET r == CallHandler(st, Lower(command), sender, args)
                     IN  Event(Outcome(r.exc, r.st,
                                       IF r.exc = "" THEN HookOf(sender, command, r.ret)
                                       ELSE None),
                               sender, command, Lower(command), r.ret)

----------------------------------------------------------------------------
(* IncrementalUIDGenerator.                                                *)

\* The symbols alphabets are made of; an alphabet is a prefix of this list.
AlphaSeq == <<"A", "B", "C", "D", "E", "F">>
GenSids == {"0A"}

\* q[pos] of a Python list: the place in the 1-based sequence, 0 if there is
\* none (IndexError). A negative pos counts from the end.
PyIndex(q, pos) ==
    IF pos >= 0 /\ pos < Len(q) THEN pos + 1
    ELSE IF pos < 0 /\ pos >= 0 - Len(q) THEN Len(q) + pos + 1
    ELSE 0

\* str.find(c): the 0-based place of the first c, -1 if there is none.
StrFind(q, c) ==
    IF \E i \in DOMAIN q : q[i] = c
    THEN (CHOOSE i \in DOMAIN q : q[i] = c /\ \A j \in 1..(i-1) : q[j] # c) - 1
    ELSE -1

\* __init__(sid): uidchars is length times the first allowed character.
GenInit(allowedchars, length, s) ==
    [allowedchars |-> allowedchars, length |-> length, sid |-> s,
     uidchars |-> [i \in 1..length |-> allowedchars[1]], raised |-> ""]

\* increment(pos) that resets the last character and does not carry.
incrementNoCarry(g, pos) ==
    LET at == PyIndex(g.uidchars, pos)
    IN  IF g.uidchars[at] = g.allowedchars[Len(g.allowedchars)]
        THEN [g EXCEPT !.uidchars[at] = g.allowedchars[1]]
        ELSE [g EXCEPT !.uidchars[at] =
                  g.allowedchars[StrFind(g.allowedchars, g.uidchars[at]) + 2]]

\* increment(pos) on generator g.
RECURSIVE increment(_, _)
increment(g, pos) ==
    LET at == PyIndex(g.uidchars, pos)
    IN  IF at = 0 THEN [g EXCEPT !.raised = "IndexError"]
        ELSE IF g.uidchars[at] = g.allowedchars[Len(g.allowedchars)]
        THEN increment([g EXCEPT !.uidchars[at] = g.allowedchars[1]], pos - 1)
        ELSE LET idx == StrFind(g.allowedchars, g.uidchars[at])
             IN  [g EXCEPT !.uidchars[at] = g.allowedchars[PyIndex(g.allowedchars, idx + 1)]]

\* next_uid(): the UID read before the increment, and the generator after.
next_uid(g) ==
    LET uid == <<g.sid>> \o g.uidchars
        g2 == increment([g EXCEPT !.raised = ""], g.length - 1)
    IN  [gen |-> g2, uid |-> IF g2.raised = "" THEN uid ELSE None]

\* alphabet size ^ width.
RECURSIVE Pow(_, _)
Pow(b, e) == IF e = 0 THEN 1 ELSE b * Pow(b, e - 1)
Space(g) == Pow(Len(g.allowedchars), g.length)

----------------------------------------------------------------------------
(* The argument parsers. A text is the list of its characters.             *)

\* What a parser raised and what it returned.
Result(exc, val) == [exc |-> exc, val |-> val]

\* str.startswith(c) for one character c.
StartsWith(text, c) == Len(text) > 0 /\ text[1] = c

\* str.split(c, 1): the text before the first c and the text after it, or
\* the text alone if it holds no c.
SplitOnce(text, c) ==
    IF \E i \in DOMAIN text : text[i] = c
    THEN LET k == CHOOSE i \in DOMAIN text : text[i] = c /\ \A j \in 1..(i-1) : text[j] # c
         IN  <<SubSeq(text, 1, k - 1), SubSeq(text, k + 1, Len(text))>>
    ELSE <<text>>

\* The loop of parse_args that takes the marker at index 0 too.
RECURSIVE ParseArgsLoopAnyIdx(_, _, _)
ParseArgsLoopAnyIdx(args, idx, real_args) ==
    IF idx >= Len(args) THEN real_args
    ELSE IF StartsWith(args[idx + 1], ":")
         THEN Append(real_args, Tail(JoinSpace(SubSeq(args, idx + 1, Len(args)))))
         ELSE ParseArgsLoopAnyIdx(args, idx + 1, Append(real_args, args[idx + 1]))

\* The loop of parse_args (lines 114-121); idx counts from 0 as enumerate does.
RECURSIVE ParseArgsLoop(_, _, _)
ParseArgsLoop(args, idx, real_args) ==
    IF idx >= Len(args) THEN real_args
    ELSE IF StartsWith(args[idx + 1], ":") /\ idx # 0
         THEN Append(real_args, Tail(JoinSpace(SubSeq(args, idx + 1, Len(args)))))
         ELSE ParseArgsLoop(args, idx + 1, Append(real_args, args[idx + 1]))

\* parse_args(args) of a list of fields.
parse_args(args) == ParseArgsLoop(args, 0, <<>>)

\* parse_prefixed_args(args): args[0] and [1] of the split raise IndexError
\* when there is no argument or no ':' in argument zero.
parse_prefixed_args(args) ==
    LET r == parse_args(args)
    IN  IF r = <<>> THEN Result("IndexError", None)
        ELSE LET halves == SplitOnce(r[1], ":")
             IN  IF Len(halves) < 2 THEN Result("IndexError", None)
                 ELSE Result("", [r EXCEPT ![1] = halves[2]])

\* [A-Za-z] of the pattern of parse_isupport_prefixes.
IsLetter(ch) == ch \in {"o", "v"}

\* re.search(r'\(([A-Za-z]+)\)(.*)', text): the leftmost '(' that one letter
\* or more and a ')' follow; group 1 is the letters and group 2 the rest of
\* the text. None if there is no such place.
PrefixSearch(text) ==
    LET opens(i) == /\ text[i] = "("
                    /\ \E j \in (i+2)..Len(text) :
                           /\ text[j] = ")"
                           /\ \A k \in (i+1)..(j-1) : IsLetter(text[k])
    IN  IF \E i \in DOMAIN text : opens(i)
        THEN LET i == CHOOSE i \in DOMAIN text : opens(i) /\ \A h \in 1..(i-1) : ~opens(h)
                 j == CHOOSE j \in (i+2)..Len(text) :
                          text[j] = ")" /\ \A k \in (i+1)..(j-1) : IsLetter(text[k])
             IN  [group1 |-> SubSeq(text, i + 1, j - 1),
                  group2 |-> SubSeq(text, j + 1, Len(text))]
        ELSE None

\* dict(zip(ks, vs)): the pairs up to the end of the shorter list; of two
\* pairs with one key the later one stays.
DictZip(ks, vs) ==
    LET n == IF Len(ks) < Len(vs) THEN Len(ks) ELSE Len(vs)
    IN  [l \in {ks[k] : k \in 1..n} |->
            vs[CHOOSE k \in 1..n : ks[k] = l /\ \A h \in (k+1)..n : ks[h] # l]]

\* parse_isupport_prefixes(args): .group of None raises AttributeError.
parse_isupport_prefixes(args) ==
    LET prefixsearch == PrefixSearch(args)
    IN  IF prefixsearch = None THEN Result("AttributeError", None)
        ELSE Result("", DictZip(prefixsearch.group1, prefixsearch.group2))

----------------------------------------------------------------------------
(* IRCCommonProtocol.handle_005: the capabilities a server announces.      *)

\* d[k] = v on a dict.
DictSet(d, k, v) == [x \in DOMAIN d \cup {k} |-> IF x = k THEN v ELSE d[x]]

\* The capability fields of a protocol object as __init__ leaves them: the
\* class tables of the channel and user modes, the prefixes of op and
\* voice, and the 005 handling switched off (line 62).
ModeClasses == [x \in {"*A", "*B", "*C", "*D"} |-> ""]
NewProto ==
    [_use_builtin_005_handling |-> FALSE,
     _caps |-> <<>>,
     cmodes |-> ModeClasses,
     umodes |-> ModeClasses,
     prefixmodes |-> DictSet(DictSet(<<>>, "o", "@"), "v", "+"),
     casemapping |-> "rfc1459",
     maxnicklen |-> 30,
     protocol_caps |-> {}]

IdleProto == proto = NewProto

\* A token KEY=VALUE or KEY of a 005 line, as parse_isupport splits it.
Token(key, value) == [key |-> key, value |-> value]

\* parse_isupport(args): the later of two tokens with one key stays.
RECURSIVE parse_isupport(_)
parse_isupport(args) ==
    IF args = <<>> THEN <<>>
    ELSE DictSet(parse_isupport(SubSeq(args, 1, Len(args) - 1)),
                 args[Len(args)].key, args[Len(args)].value)

\* int(text) of the lengths a server announces.
IntOf(text) == IF text = "21" THEN 21 ELSE IF text = "9" THEN 9 ELSE -1

\* COMMON_PREFIXMODES (line 56), in order.
COMMON_PREFIXMODES ==
    <<<<"h", "halfop">>, <<"a", "admin">>, <<"q", "owner">>, <<"y", "owner">>>>

\* Lines 293-298: a common prefix mode is named unless the name is taken.
RECURSIVE AutodetectPrefixModes(_, _, _)
AutodetectPrefixModes(cmodes, prefixmodes, todo) ==
    IF todo = <<>> THEN cmodes
    ELSE LET char == Head(todo)[1]
             modename == Head(todo)[2]
         IN  AutodetectPrefixModes(
                 IF char \in DOMAIN prefixmodes /\ modename \notin DOMAIN cmodes
                 THEN DictSet(cmodes, modename, char) ELSE cmodes,
                 prefixmodes, Tail(todo))

\* newcaps.get(key) or fallback.
CapOr(newcaps, key, fallback) == IF newcaps[key] = "" THEN fallback ELSE newcaps[key]

\* Lines 270-327, one field after the other; a field that cannot be read
\* raises and leaves the fields set before it.
Step005Caps(p, newcaps) ==
    [p EXCEPT !._caps = [k \in DOMAIN p._caps \cup DOMAIN newcaps |->
                            IF k \in DOMAIN newcaps THEN newcaps[k] ELSE p._caps[k]]]

Step005Chanmodes(p, newcaps) ==
    IF "CHANMODES" \notin DOMAIN newcaps THEN Result("", p)
    ELSE IF Len(newcaps["CHANMODES"]) # 4 THEN Result("ValueError", p)
    ELSE Result("", [p EXCEPT !.cmodes =
             [x \in DOMAIN p.cmodes |->
                 IF x = "*A" THEN newcaps["CHANMODES"][1]
                 ELSE IF x = "*B" THEN newcaps["CHANMODES"][2]
                 ELSE IF x = "*C" THEN newcaps["CHANMODES"][3]
                 ELSE IF x = "*D" THEN newcaps["CHANMODES"][4]
                 ELSE p.cmodes[x]]])

Step005Usermodes(p, newcaps) ==
    IF "USERMODES" \notin DOMAIN newcaps THEN Result("", p)
    ELSE IF Len(newcaps["USERMODES"]) # 4 THEN Result("ValueError", p)
    ELSE Result("", [p EXCEPT !.umodes =
             [x \in DOMAIN p.umodes |->
                 IF x = "*A" THEN newcaps["USERMODES"][1]
                 ELSE IF x = "*B" THEN newcaps["USERMODES"][2]
                 ELSE IF x = "*C" THEN newcaps["USERMODES"][3]
                 ELSE IF x = "*D" THEN newcaps["USERMODES"][4]
                 ELSE p.umodes[x]]])

Step005Casemapping(p, newcaps) ==
    IF "CASEMAPPING" \in DOMAIN newcaps
    THEN [p EXCEPT !.casemapping = newcaps["CASEMAPPING"]] ELSE p

Step005Prefix(p, newcaps) ==
    IF "PREFIX" \notin DOMAIN newcaps THEN Result("", p)
    ELSE LET r == parse_isupport_prefixes(newcaps["PREFIX"])
         IN  IF r.exc # "" THEN Result(r.exc, p)
             ELSE Result("", [p EXCEPT !.prefixmodes = r.val,
                                       !.cmodes = AutodetectPrefixModes(@, r.val,
                                                      COMMON_PREFIXMODES)])

Step005Excepts(p, newcaps) ==
    IF "EXCEPTS" \in DOMAIN newcaps
    THEN [p EXCEPT !.cmodes = DictSet(@, "banexception", CapOr(newcaps, "EXCEPTS", "e"))]
    ELSE p

Step005Invex(p, newcaps) ==
    IF "INVEX" \in DOMAIN newcaps
    THEN [p EXCEPT !.cmodes = DictSet(@, "invex", CapOr(newcaps, "INVEX", "I"))]
    ELSE p

Step005Nicklen(p, newcaps) ==
    IF "NICKLEN" \notin DOMAIN newcaps THEN Result("", p)
    ELSE IF newcaps["NICKLEN"] = "" THEN Result("AssertionError", p)
    ELSE Result("", [p EXCEPT !.maxnicklen = IntOf(newcaps["NICKLEN"])])

Step005Deaf(p, newcaps) ==
    IF "DEAF" \in DOMAIN newcaps
    THEN [p EXCEPT !.umodes = DictSet(@, "deaf", CapOr(newcaps, "DEAF", "D"))]
    ELSE p

Step005Callerid(p, newcaps) ==
    IF "CALLERID" \in DOMAIN newcaps
    THEN [p EXCEPT !.umodes = DictSet(@, "callerid", CapOr(newcaps, "CALLERID", "g"))]
    ELSE p

Step005Statusmsg(p, newcaps) ==
    IF "STATUSMSG" \in DOMAIN newcaps
    THEN [p EXCEPT !.protocol_caps = @ \cup {"has-statusmsg"}] ELSE p

\* The switch of line 262 read as always on.
Is005EnabledAlways(p) == TRUE

\* Line 262: self._use_builtin_005_handling.
Is005Enabled(p) == p._use_builtin_005_handling

\* handle_005(source, command, args): args = [nick, token..., text]; the
\* tokens are args[1:-1]. The result is the exception, the protocol
\* object, and the value returned.
handle_005(p, args) ==
    IF ~Is005Enabled(p) THEN [exc |-> "", proto |-> p, ret |-> None]
    ELSE LET newcaps == parse_isupport(SubSeq(args, 2, Len(args) - 1))
             p1 == Step005Caps(p, newcaps)
             r2 == Step005Chanmodes(p1, newcaps)
             r3 == Step005Usermodes(r2.val, newcaps)
             p3 == Step005Casemapping(r3.val, newcaps)
             r4 == Step005Prefix(p3, newcaps)
             p5 == Step005Invex(Step005Excepts(r4.val, newcaps), newcaps)
             r6 == Step005Nicklen(p5, newcaps)
             p7 == Step005Statusmsg(
                       Step005Callerid(Step005Deaf(r6.val, newcaps), newcaps), newcaps)
         IN  IF r2.exc # "" THEN [exc |-> r2.exc, proto |-> r2.val, ret |-> None]
             ELSE IF r3.exc # "" THEN [exc |-> r3.exc, proto |-> r3.val, ret |-> None]
             ELSE IF r4.exc # "" THEN [exc |-> r4.exc, proto |-> r4.val, ret |-> None]
             ELSE IF r6.exc # "" THEN [exc |-> r6.exc, proto |-> r6.val, ret |-> None]
             ELSE [exc |-> "", proto |-> p7, ret |-> None]

----------------------------------------------------------------------------
(* plugins/networks.py: the remote command.                                *)

MaxDepth == 2

\* The networks of world.networkobjects, the threads of those on which
\* remote commands are given, and the network names a caller may give.
Nets == {"n1", "n2", "n3"}
Threads == {"n1", "n2"}
NetNames == Nets \cup {"nx"}

\* The services a caller may name: one that runs everywhere, one that has
\* a client on n1 alone, one that world.services does not hold.
Services == {"pylink", "games", "nosvc"}
ServiceNets(service) ==
    IF service = "pylink" THEN Nets ELSE IF service = "games" THEN {"n1"} ELSE {}

\* The fields of a network object that a remote command sets besides the
\* reply function: called_in, called_by and pseudoclient.account.
Overridden(called_in, called_by, account) ==
    [called_in |-> called_in, called_by |-> called_by, account |-> account]

\* The UID of the service client on a network, and the account the
\* caller is logged in to.
PseudoUid(netname) == "svc"
CallerAccounts == {"alice"}

\* One call of remote(): the network it was called on, the network it
\* names, the statement it is at, old_reply, whether the command it ran
\* has raised, and the reply function and the other fields the named
\* network had when the call began.
Frame(irc, netname, entry, before) ==
    [irc |-> irc, net |-> netname, pc |-> "check", old |-> NoneStr,
     raising |-> FALSE, entry |-> entry, before |-> before]

\* called_in, called_by and the account of the service client of a
\* network as a call of remote() finds them.
OverriddenOf(netname) ==
    IF netname \in Nets THEN overridden[netname] ELSE Overridden(NoneStr, NoneStr, "")

\* remoteirc._reply as a call of remote() finds it.
ReplyOf(netname) == IF netname \in Nets THEN reply[netname] ELSE NoneStr

\* _remote_reply(placeholder_self, text) of a remote command given on irc:
\* the network the reply goes to.
_remote_reply(irc, placeholder_self) ==
    IF irc = placeholder_self THEN Result("AssertionError", None)
    ELSE Result("", irc)

\* No remote command has been given: each network replies for itself and
\* no reply lock is held.
IdleCalls ==
    /\ REMOTE_IN_USE = FALSE
    /\ stacks = [t \in Threads |-> <<>>]
    /\ reply = [n \in Nets |-> "own"]
    /\ replylock = [n \in Nets |-> NoneStr]
    /\ lastexit = ""
    /\ overridden = [n \in Nets |-> Overridden(NoneStr, NoneStr, "")]

\* The callers name each other's networks and a network that is not there.
IdleRemote ==
    /\ IdleCalls
    /\ given = {"n1", "n2", "nx"}

Top(t) == stacks[t][Len(stacks[t])]
At(t, pc) == stacks[t] # <<>> /\ Top(t).pc = pc
Goto(t, pc) == [stacks EXCEPT ![t][Len(stacks[t])].pc = pc]

\* The call returns: the caller, if it is a remote command that ran this
\* one, goes on.
Return(t) == [stacks EXCEPT ![t] = SubSeq(@, 1, Len(@) - 1)]

\* The call raises: the command the caller ran has raised, and the caller
\* is at its finally clause.
Raise(t) ==
    [stacks EXCEPT ![t] =
        IF Len(@) = 1 THEN <<>>
        ELSE [SubSeq(@, 1, Len(@) - 1) EXCEPT ![Len(@) - 1].pc = "restore",
                                              ![Len(@) - 1].raising = TRUE]]

\* A return that leaves the flag as it found it.
ClearOnReturnKeepsFlag(in_use) == in_use

\* REMOTE_IN_USE.clear() before a return or a raise (lines 103-134, 171).
ClearOnReturn(in_use) == FALSE

\* Lines 99-124: the error that ends the command, "" if there is none.
ValidateError(irc, netname, service, connected) ==
    IF netname = irc THEN "local network"
    ELSE IF netname \notin Nets THEN "no such network"
    ELSE IF ServiceNets(service) = {} THEN "unknown service"
    ELSE IF ~connected THEN "not connected"
    ELSE IF netname \notin ServiceNets(service) THEN "service not available"
    ELSE ""

\* A user of network t gives the remote command.
RemoteStart(t) ==
    /\ stacks[t] = <<>>
    /\ \E netname \in given : stacks' = [stacks EXCEPT ![t] = <<Frame(t, netname, ReplyOf(netname),
                                           OverriddenOf(netname))>>]
    /\ UNCHANGED <<REMOTE_IN_USE, reply, replylock, lastexit>>
    /\ UNCHANGED <<netvars, genvars, parsevars, given, protovars, overridden>>

\* The command call_cmd runs on the remote network is a remote command.
RemoteNested(t) ==
    /\ At(t, "call")
    /\ Len(stacks[t]) < MaxDepth
    /\ \E netname \in given :
           stacks' = [stacks EXCEPT ![t] = Append(@, Frame(Top(t).net, netname, ReplyOf(netname),
                                                 OverriddenOf(netname)))]
    /\ UNCHANGED <<REMOTE_IN_USE, reply, replylock, lastexit>>
    /\ UNCHANGED <<netvars, genvars, parsevars, given, protovars, overridden>>

\* Lines 94-96: REMOTE_IN_USE.is_set().
RemoteCheck(t) ==
    /\ At(t, "check")
    /\ IF REMOTE_IN_USE
       THEN stacks' = Return(t) /\ lastexit' = "nested"
       ELSE stacks' = Goto(t, "set") /\ UNCHANGED lastexit
    /\ UNCHANGED <<REMOTE_IN_USE, reply, replylock>>
    /\ UNCHANGED <<netvars, genvars, parsevars, given, protovars, overridden>>

\* Line 98: REMOTE_IN_USE.set().
RemoteSet(t) ==
    /\ At(t, "set")
    /\ REMOTE_IN_USE' = TRUE
    /\ stacks' = Goto(t, "validate")
    /\ UNCHANGED <<reply, replylock, lastexit>>
    /\ UNCHANGED <<netvars, genvars, parsevars, given, protovars, overridden>>

\* Lines 99-124: any of the five errors ends the command by a return.
RemoteValidate(t) ==
    /\ At(t, "validate")
    /\ \E service \in Services : \E connected \in BOOLEAN :
           LET err == ValidateError(Top(t).irc, Top(t).net, service, connected)
           IN  IF err # ""
               THEN /\ REMOTE_IN_USE' = ClearOnReturn(REMOTE_IN_USE)
                    /\ stacks' = Return(t)
                    /\ lastexit' = "refused"
               ELSE /\ stacks' = Goto(t, "install")
                    /\ UNCHANGED <<REMOTE_IN_USE, lastexit>>
    /\ UNCHANGED <<reply, replylock>>
    /\ UNCHANGED <<netvars, genvars, parsevars, given, protovars, overridden>>

\* Lines 128-135: called_in and called_by are the service client, then
\* the account is the caller's; irc.users[source] raises if the caller has
\* gone, after called_in and called_by were set.
RemoteInstall(t) ==
    /\ At(t, "install")
    /\ \E known \in BOOLEAN : \E account \in CallerAccounts :
           IF known
           THEN /\ overridden' = [overridden EXCEPT ![Top(t).net] =
                        Overridden(PseudoUid(Top(t).net), PseudoUid(Top(t).net), account)]
                /\ stacks' = Goto(t, "save")
                /\ UNCHANGED <<REMOTE_IN_USE, lastexit>>
           ELSE /\ overridden' = [overridden EXCEPT ![Top(t).net] =
                        Overridden(PseudoUid(Top(t).net), PseudoUid(Top(t).net), @.account)]
                /\ REMOTE_IN_USE' = ClearOnReturn(REMOTE_IN_USE)
                /\ stacks' = Raise(t)
                /\ lastexit' = "install raised"
    /\ UNCHANGED <<reply, replylock>>
    /\ UNCHANGED <<netvars, genvars, parsevars, given, protovars>>

\* Line 152: old_reply = remoteirc._reply.
RemoteSave(t) ==
    /\ At(t, "save")
    /\ stacks' = [stacks EXCEPT ![t][Len(stacks[t])].old = reply[Top(t).net],
                                ![t][Len(stacks[t])].pc = "lock"]
    /\ UNCHANGED <<REMOTE_IN_USE, reply, replylock, lastexit>>
    /\ UNCHANGED <<netvars, genvars, parsevars, given, protovars, overridden>>

\* Line 154: with remoteirc._reply_lock.
RemoteLock(t) ==
    /\ At(t, "lock")
    /\ replylock[Top(t).net] = NoneStr
    /\ replylock' = [replylock EXCEPT ![Top(t).net] = t]
    /\ stacks' = Goto(t, "override")
    /\ UNCHANGED <<REMOTE_IN_USE, reply, lastexit>>
    /\ UNCHANGED <<netvars, genvars, parsevars, given, protovars, overridden>>

\* Line 158: the reply function of the remote network is the router to irc.
RemoteOverride(t) ==
    /\ At(t, "override")
    /\ reply' = [reply EXCEPT ![Top(t).net] = Top(t).irc]
    /\ stacks' = Goto(t, "call")
    /\ UNCHANGED <<REMOTE_IN_USE, replylock, lastexit>>
    /\ UNCHANGED <<netvars, genvars, parsevars, given, protovars, overridden>>

\* Lines 159-160: call_cmd returns, or raises.
RemoteCall(t) ==
    /\ At(t, "call")
    /\ \E raised \in BOOLEAN :
           stacks' = [stacks EXCEPT ![t][Len(stacks[t])].pc = "restore",
                                    ![t][Len(stacks[t])].raising = raised]
    /\ UNCHANGED <<REMOTE_IN_USE, reply, replylock, lastexit>>
    /\ UNCHANGED <<netvars, genvars, parsevars, given, protovars, overridden>>

\* Lines 162-170: the reply function is old_reply again and the account
\* of the service client is ''.
RemoteRestore(t) ==
    /\ At(t, "restore")
    /\ reply' = [reply EXCEPT ![Top(t).net] = Top(t).old]
    /\ overridden' = [overridden EXCEPT ![Top(t).net].account = ""]
    /\ stacks' = Goto(t, "clear")
    /\ UNCHANGED <<REMOTE_IN_USE, replylock, lastexit>>
    /\ UNCHANGED <<netvars, genvars, parsevars, given, protovars>>

\* Line 171 and the end of the with block.
RemoteClear(t) ==
    /\ At(t, "clear")
    /\ REMOTE_IN_USE' = ClearOnReturn(REMOTE_IN_USE)
    /\ replylock' = [replylock EXCEPT ![Top(t).net] = NoneStr]
    /\ stacks' = IF Top(t).raising THEN Raise(t) ELSE Return(t)
    /\ lastexit' = IF Top(t).raising THEN "command raised" ELSE "done"
    /\ UNCHANGED reply
    /\ UNCHANGED <<netvars, genvars, parsevars, given, protovars, overridden>>

----------------------------------------------------------------------------
(* The state machine of one network.                                       *)

\* watch is the set of operations whose calls are recorded; last is what the
\* last such call was, raised, returned and sent on the wire.
Call(op, source, args, exc, ret, sent) ==
    [op |-> op, source |-> source, args |-> args, exc |-> exc, ret |-> ret,
     sent |-> sent]
NoCall == Call("", "", <<>>, "", None, <<>>)

Server(s, name, up, internal) ==
    [sid |-> s, name |-> name, uplink |-> up, users |-> {}, internal |-> internal]

\* The generator the network part of the model leaves alone.
IdleGen == GenInit(SubSeq(AlphaSeq, 1, 2), 1, "0A")

\* The parsers have been given nothing.
NoParse == [fn |-> "", exc |-> "", val |-> None]
IdleParse == line = <<>> /\ parsed = NoParse

\* After the handshake: this server and its uplink, no users, no channels.
InitNet ==
    /\ servers = <<Server(sid, ServerName(sid), NoneStr, TRUE),
                   Server(uplink, ServerName(uplink), NoneStr, FALSE)>>
    /\ users = <<>>
    /\ channels = <<>>
    /\ last = NoCall

Init ==
    /\ InitNet
    /\ watch = {}
    /\ gen = IdleGen
    /\ issued = <<>>
    /\ IdleRemote
    /\ IdleParse
    /\ IdleProto

Apply(op, source, args, r, sent) ==
    /\ servers' = r.st.servers
    /\ users' = r.st.users
    /\ channels' = r.st.channels
    /\ last' = IF op \in watch THEN Call(op, source, args, r.exc, r.ret, sent) ELSE NoCall
    /\ UNCHANGED <<watch, gen, issued, parsevars, remotevars, protovars>>

\* A remote server is introduced behind a server that is present.
IntroduceServer ==
    \E s \in RemoteSids \ SKeys(servers) : \E up \in UplinkChoices(s) \cap SKeys(servers) :
        /\ Cardinality(SKeys(servers) \cap RemoteSids) < MaxServers
        /\ \A t \in SKeys(servers) \cap RemoteSids : SidAt(t) < SidAt(s)
        /\ servers' = Append(servers, Server(s, ServerName(s), up, FALSE))
        /\ last' = NoCall
        /\ UNCHANGED <<users, channels, watch, gen, issued, parsevars, remotevars, protovars>>

\* A user is introduced on its server (a client of this server is spawned).
IntroduceUser ==
    \E u \in AllUids \ DOMAIN users :
        /\ HomeOf(u) \in SKeys(servers)
        /\ Cardinality(DOMAIN users) < MaxUsers
        /\ users' = users @@ (u :> NewUser(NickOf(u)))
        /\ servers' = SAddUser(servers, HomeOf(u), u)
        /\ last' = NoCall
        /\ UNCHANGED <<channels, watch, gen, issued, parsevars, remotevars, protovars>>

Memberships ==
    Cardinality({<<u, c>> \in (DOMAIN users) \X (DOMAIN channels) : u \in channels[c].users})

\* A user joins a channel.
Join ==
    \E u \in DOMAIN users : \E c \in Chans \ users[u].channels :
        /\ Memberships < MaxJoins
        /\ channels' = [ChannelTouch(channels, c) EXCEPT ![c].users = @ \cup {u}]
        /\ users' = [users EXCEPT ![u].channels = @ \cup {c}]
        /\ last' = NoCall
        /\ UNCHANGED <<servers, watch, gen, issued, parsevars, remotevars, protovars>>

Now == St(servers, users, channels)

\* Inbound lines, as handle_events hands them to the handlers.
HandleSquit ==
    \E target \in SquitTargets :
        Apply("SQUIT", uplink, <<target>>, _squit(Now, target, {}), <<>>)

PartLists ==
    {<<c>> : c \in Chans} \cup {<<c, d>> : c, d \in Chans}
        \cup {<<x[1], x[2], x[1]>> : x \in {y \in Chans \X Chans : y[1] # y[2]}}

HandlePart ==
    \E source \in AllUids : \E chanlist \in PartLists :
        Apply("PART", source, <<chanlist>>, handle_part(Now, source, chanlist, ""), <<>>)

HandleKick ==
    \E channel \in Chans : \E target \in UserTargets :
        Apply("KICK", uplink, <<channel, target>>,
              handle_kick(Now, uplink, channel, target, ""), <<>>)

HandleQuit ==
    \E numeric \in AllUids :
        Apply("QUIT", numeric, <<"bye">>, handle_quit(Now, numeric, "bye"), <<>>)

HandleKill ==
    \E target \in UserTargets : \E reason \in KillReasons :
        Apply("KILL", uplink, <<target, reason>>,
              handle_kill(Now, uplink, target, reason), <<>>)

\* Outbound builders. A line on the wire is the list of its fields, the
\* sender first (_send_with_prefix).
OutActors == {"0AAAA", "ACAAA", sid, uplink}

\* The test of the client-or-server builders for clients alone.
IsOwnClientOrServerClientOnly(st, numeric) == is_internal_client(st.servers, numeric)

\* The test of kick, notice and topic: a client or a server of this side.
IsOwnClientOrServer(st, numeric) ==
    is_internal_client(st.servers, numeric) \/ is_internal_server(st.servers, numeric)

\* part(client, channel, reason).
part(st, client, channel, reason) ==
    IF ~is_internal_client(st.servers, client)
    THEN [out |-> Outcome("LookupError", st, None), sent |-> <<>>]
    ELSE [out |-> Outcome("", handle_part(st, client, <<channel>>, "").st, None),
          sent |-> <<<<client, "PART", channel, reason>>>>]

\* kick that sends the line and leaves the local state alone.
kickSendOnly(st, numeric, channel, target, reason) ==
    IF ~IsOwnClientOrServer(st, numeric)
    THEN [out |-> Outcome("LookupError", st, None), sent |-> <<>>]
    ELSE [out |-> Outcome("", st, None),
          sent |-> <<<<numeric, "KICK", channel, target,
                       IF reason = "" THEN "No reason given" ELSE reason>>>>]

\* kick(numeric, channel, target, reason): no reason is 'No reason given'.
kick(st, numeric, channel, target, reason) ==
    IF ~IsOwnClientOrServer(st, numeric)
    THEN [out |-> Outcome("LookupError", st, None), sent |-> <<>>]
    ELSE [out |-> Outcome("", handle_part(st, target, <<channel>>, "").st, None),
          sent |-> <<<<numeric, "KICK", channel, target,
                       IF reason = "" THEN "No reason given" ELSE reason>>>>]

\* quit(numeric, reason).
quit(st, numeric, reason) ==
    IF is_internal_client(st.servers, numeric)
    THEN [out |-> Outcome("", _remove_client(st, numeric), None),
          sent |-> <<<<numeric, "QUIT", reason>>>>]
    ELSE [out |-> Outcome("LookupError", st, None), sent |-> <<>>]

\* squit(source, target, text): the line is sent, then handle_squit runs.
squit(st, source, target, text) ==
    LET r == _squit(st, target, {})
    IN  [out |-> Outcome(r.exc, r.st, None),
         sent |-> <<<<source, "SQUIT", target, text>>>>]

Part ==
    \E client \in OutActors : \E channel \in Chans :
        LET r == part(Now, client, channel, "")
        IN  Apply("part", client, <<channel>>, r.out, r.sent)

Kick ==
    \E numeric \in OutActors : \E channel \in Chans : \E target \in AllUids :
        LET r == kick(Now, numeric, channel, target, "")
        IN  Apply("kick", numeric, <<channel, target>>, r.out, r.sent)

Quit ==
    \E numeric \in OutActors :
        LET r == quit(Now, numeric, "bye")
        IN  Apply("quit", numeric, <<"bye">>, r.out, r.sent)

Squit ==
    \E source \in OutActors : \E target \in AllSids :
        LET r == squit(Now, source, target, "bye")
        IN  Apply("squit", source, <<target, "bye">>, r.out, r.sent)

\* invite(source, target, channel).
invite(st, source, target, channel) ==
    IF ~is_internal_client(st.servers, source)
    THEN [out |-> Outcome("LookupError", st, None), sent |-> <<>>]
    ELSE [out |-> Outcome("", st, None),
          sent |-> <<<<source, "INVITE", target, channel>>>>]

\* message(numeric, target, text).
message(st, numeric, target, text) ==
    IF ~is_internal_client(st.servers, numeric)
    THEN [out |-> Outcome("LookupError", st, None), sent |-> <<>>]
    ELSE [out |-> Outcome("", st, None),
          sent |-> <<<<numeric, "PRIVMSG", target, text>>>>]

\* notice(numeric, target, text).
notice(st, numeric, target, text) ==
    IF ~IsOwnClientOrServer(st, numeric)
    THEN [out |-> Outcome("LookupError", st, None), sent |-> <<>>]
    ELSE [out |-> Outcome("", st, None),
          sent |-> <<<<numeric, "NOTICE", target, text>>>>]

\* topic(source, target, text): the line is sent and the topic is set on
\* self._channels[target].
topic(st, source, target, text) ==
    IF ~IsOwnClientOrServer(st, source)
    THEN [out |-> Outcome("LookupError", st, None), sent |-> <<>>]
    ELSE LET ch == ChannelTouch(st.channels, target)
         IN  [out |-> Outcome("", [st EXCEPT !.channels =
                                      [ch EXCEPT ![target].topic = text,
                                                 ![target].topicset = TRUE]], None),
              sent |-> <<<<source, "TOPIC", target, text>>>>]

\* Whom an INVITE, a PRIVMSG or a NOTICE of the model is for.
OutTargets == {"ACAAA"}

Invite ==
    \E source \in OutActors : \E target \in OutTargets : \E channel \in Chans :
        LET r == invite(Now, source, target, channel)
        IN  Apply("invite", source, <<target, channel>>, r.out, r.sent)

Message ==
    \E numeric \in OutActors : \E target \in OutTargets :
        LET r == message(Now, numeric, target, "hi")
        IN  Apply("message", numeric, <<target, "hi">>, r.out, r.sent)

Notice ==
    \E numeric \in OutActors : \E target \in OutTargets :
        LET r == notice(Now, numeric, target, "hi")
        IN  Apply("notice", numeric, <<target, "hi">>, r.out, r.sent)

Topic ==
    \E source \in OutActors : \E target \in Chans :
        LET r == topic(Now, source, target, "t")
        IN  Apply("topic", source, <<target, "t">>, r.out, r.sent)

HandleTopic ==
    \E numeric \in AllUids : \E channel \in Chans :
        Apply("TOPIC", numeric, <<channel, "u">>,
              handle_topic(Now, numeric, channel, "u"), <<>>)

Next ==
    \/ IntroduceServer
    \/ IntroduceUser
    \/ Join
    \/ HandleSquit
    \/ HandlePart
    \/ HandleKick
    \/ HandleQuit
    \/ HandleKill
    \/ Part
    \/ Kick
    \/ Quit
    \/ Squit

Spec == Init /\ [][Next]_vars

\* The same network with the inbound SQUIT calls recorded.
InitSquit ==
    /\ InitNet
    /\ watch = {"SQUIT"}
    /\ gen = IdleGen
    /\ issued = <<>>
    /\ IdleRemote
    /\ IdleParse
    /\ IdleProto

SpecSquit == InitSquit /\ [][Next]_vars

\* Server tables after a burst: this server, its uplink, and three remote
\* servers in a chain or a fork behind the uplink. The record of the uplink
\* names no uplink, this server, or a remote server that introduced it.
CascadeUplinks == {NoneStr, sid, "AD", "AE"}
CascadeTables ==
    {<<Server(sid, ServerName(sid), NoneStr, TRUE),
       Server(uplink, ServerName(uplink), b, FALSE),
       Server("AC", ServerName("AC"), uplink, FALSE),
       Server("AD", ServerName("AD"), "AC", FALSE),
       Server("AE", ServerName("AE"), e, FALSE)>> :
         b \in CascadeUplinks, e \in {"AC", "AD"}}

InitCascade ==
    /\ servers \in CascadeTables
    /\ users = <<>>
    /\ channels = <<>>
    /\ last = NoCall
    /\ watch = {}
    /\ gen = IdleGen
    /\ issued = <<>>
    /\ IdleRemote
    /\ IdleParse
    /\ IdleProto

NextCascade ==
    \/ IntroduceUser
    \/ HandleSquit
    \/ Squit

SpecCascade == InitCascade /\ [][NextCascade]_vars

----------------------------------------------------------------------------
(* The network with the lines of the uplink given to the dispatcher.       *)

\* What field 0 of a line with a sender is, and what follows the sender.
EventSenders == {"0B", "0A", "0AAAA", "pylink", "ACAAA", "AC", "zz"}
EventTails ==
    { <<"SQUIT", "AC">>, <<"squit", "AD">>, <<"PART", "#a">>,
      <<"KICK", "#a", "ACAAA">>, <<"QUIT", "bye">>, <<"TIME", "0A">>,
      <<"ENCAP", "*", "QUIT", "bye">>, <<"ENCAP", "*", "FOO", "x">>,
      <<"FOO", "x">>, <<"EVENTS", "x">>, <<>>,
      <<"quit", "bye">>, <<"ENCAP", "*", "quit", "bye">>, <<"VERSION">> }
EventLines ==
    {Line(TRUE, <<s>> \o t) : s \in EventSenders, t \in EventTails}
    \cup {Line(FALSE, t) : t \in EventTails \ {<<>>}}
    \cup {Line(FALSE, <<s>> \o t) :
              s \in {"AC", "0A"}, t \in {<<"SQUIT", "AD">>, <<"QUIT", "bye">>}}

HandleEvents ==
    \E data \in EventLines :
        LET r == handle_events(Now, data)
        IN  Apply("EVENT", r.sender, <<data, r.command, r.func>>, r, <<>>)

NextEvents ==
    \/ IntroduceServer
    \/ IntroduceUser
    \/ Join
    \/ HandleEvents

SpecEvents == Init /\ [][NextEvents]_vars

----------------------------------------------------------------------------
(* The network with every outbound builder and the inbound handlers of the *)
(* same commands.                                                          *)

NextOut ==
    \/ IntroduceServer
    \/ IntroduceUser
    \/ Join
    \/ Part
    \/ Kick
    \/ Quit
    \/ Squit
    \/ Invite
    \/ Message
    \/ Notice
    \/ Topic
    \/ HandlePart
    \/ HandleKick
    \/ HandleQuit
    \/ HandleTopic
    \/ HandleSquit

SpecOut == Init /\ [][NextOut]_vars

----------------------------------------------------------------------------
(* The state machine of one UID generator.                                 *)

InitUID ==
    /\ InitNet
    /\ watch = {}
    /\ \E k \in 2..MaxAlpha : \E w \in 1..MaxWidth : \E s \in GenSids :
           gen = GenInit(SubSeq(AlphaSeq, 1, k), w, s)
    /\ issued = <<>>
    /\ IdleRemote
    /\ IdleParse
    /\ IdleProto

\* One call of next_uid(); calls stop ExtraCalls after the space is used up.
NextUid ==
    /\ Len(issued) < Space(gen) + ExtraCalls
    /\ gen.raised = ""
    /\ LET r == next_uid(gen)
       IN  /\ gen' = r.gen
           /\ issued' = IF r.gen.raised = "" THEN Append(issued, r.uid) ELSE issued
    /\ UNCHANGED <<netvars, parsevars, remotevars, protovars>>

SpecUID == InitUID /\ [][NextUid]_vars

----------------------------------------------------------------------------
(* The parsers applied to one input.                                       *)

MaxFields == 3

\* The fields a raw line is made of, and the lists of them.
Fields ==
    { <<>>, <<":">>, <<"a">>, <<":", "a">>, <<"a", ":", "b">>, <<":", ":", "a">> }
ArgLists == UNION {[1..n -> Fields] : n \in 0..MaxFields}

InitParse ==
    /\ InitNet
    /\ watch = {}
    /\ gen = IdleGen
    /\ issued = <<>>
    /\ IdleRemote
    /\ IdleProto
    /\ line \in ArgLists
    /\ parsed = NoParse

ParseArgs ==
    /\ parsed' = [fn |-> "parse_args", exc |-> "", val |-> parse_args(line)]
    /\ UNCHANGED <<netvars, genvars, line, remotevars, protovars>>

ParsePrefixedArgs ==
    /\ LET r == parse_prefixed_args(line)
       IN  parsed' = [fn |-> "parse_prefixed_args", exc |-> r.exc, val |-> r.val]
    /\ UNCHANGED <<netvars, genvars, line, remotevars, protovars>>

NextParse == ParseArgs \/ ParsePrefixedArgs

SpecParse == InitParse /\ [][NextParse]_vars

----------------------------------------------------------------------------
(* parse_isupport_prefixes applied to one token.                           *)

MaxToken == 6

\* The characters of a PREFIX token and the tokens made of them.
PrefixChars == {"(", ")", "o", "v", "@", "+"}
Tokens == UNION {[1..n -> PrefixChars] : n \in 0..MaxToken}

InitPrefix ==
    /\ InitNet
    /\ watch = {}
    /\ gen = IdleGen
    /\ issued = <<>>
    /\ IdleRemote
    /\ IdleProto
    /\ \E t \in Tokens : line = <<t>>
    /\ parsed = NoParse

ParseIsupportPrefixes ==
    /\ parsed.fn = ""
    /\ LET r == parse_isupport_prefixes(line[1])
       IN  parsed' = [fn |-> "parse_isupport_prefixes", exc |-> r.exc, val |-> r.val]
    /\ UNCHANGED <<netvars, genvars, line, remotevars, protovars>>

SpecPrefix == InitPrefix /\ [][ParseIsupportPrefixes]_vars

----------------------------------------------------------------------------
(* The 005 lines of a server.                                              *)

\* The tokens a server announces, well formed and not.
Tokens005 ==
    { Token("CHANMODES", <<"b", "k", "l", "n">>),
      Token("CHANMODES", <<"b", "k">>),
      Token("USERMODES", <<"", "s", "", "i">>),
      Token("CASEMAPPING", "ascii"),
      Token("PREFIX", <<"(", "o", ")", "@">>),
      Token("PREFIX", <<"o", "@">>),
      Token("EXCEPTS", ""),
      Token("INVEX", "I"),
      Token("NICKLEN", "21"),
      Token("NICKLEN", ""),
      Token("DEAF", ""),
      Token("CALLERID", "g"),
      Token("STATUSMSG", "@+") }

Lines005 ==
    {<<"pylink", t, "are supported">> : t \in Tokens005}
        \cup {<<"pylink", Token("NICKLEN", ""), Token("NICKLEN", "21"), "are supported">>,
              <<"pylink", Token("PREFIX", <<"(", "o", ")", "@">>), Token("STATUSMSG", "@+"),
                "are supported">>}

\* A protocol object of a dialect that has or has not opted in to the
\* built-in 005 handling.
Init005 ==
    /\ InitNet
    /\ watch = {"005"}
    /\ gen = IdleGen
    /\ issued = <<>>
    /\ IdleParse
    /\ IdleRemote
    /\ \E optin \in BOOLEAN :
           proto = [NewProto EXCEPT !._use_builtin_005_handling = optin]

Handle005 ==
    \E args \in Lines005 :
        LET r == handle_005(proto, args)
        IN  /\ proto' = r.proto
            /\ last' = Call("005", uplink, args, r.exc, r.ret, <<>>)
            /\ UNCHANGED <<servers, users, channels, watch, genvars, parsevars, remotevars>>

Spec005 == Init005 /\ [][Handle005]_vars

----------------------------------------------------------------------------
(* Inbound messages and notices.                                           *)

MsgLefts == {"cat", "ACAAA", "ghost", "#a", "@#a", "=#a"}
MsgServers == {NoneStr, "c.net", "Hub.Net", "hub.net", "x.y", "nodot"}
MsgTargets == {MsgTarget(l, s) : l \in MsgLefts, s \in MsgServers}
MsgSenders == {"ADAAA", uplink}

HandlePrivmsg ==
    \E source \in MsgSenders : \E raw \in MsgTargets :
        LET r == handle_privmsg(Now, proto, source, raw, "hi")
        IN  Apply("PRIVMSG", source, <<raw, "hi">>, r.out, r.sent)

HandleNotice ==
    \E source \in MsgSenders : \E raw \in MsgTargets :
        LET r == handle_privmsg(Now, proto, source, raw, "hi")
        IN  Apply("NOTICE", source, <<raw, "hi">>, r.out, r.sent)

NextMsg ==
    \/ IntroduceServer
    \/ IntroduceUser
    \/ HandleQuit
    \/ HandleSquit
    \/ HandlePrivmsg
    \/ HandleNotice

SpecMsg == Init /\ [][NextMsg]_vars

----------------------------------------------------------------------------
(* Inbound mode changes on a dialect that has an away user mode.           *)

ModeTargets == {"0AAAA", "cat", "ghost", "#a"}
ModeStrings ==
    { <<ModeChange("+", "a")>>, <<ModeChange("-", "a")>>,
      <<ModeChange("+", "i")>>, <<ModeChange("-", "i")>>,
      <<ModeChange("+", "o")>>,
      <<ModeChange("+", "i"), ModeChange("+", "a")>> }

InitMode ==
    /\ InitNet
    /\ watch = {}
    /\ gen = IdleGen
    /\ issued = <<>>
    /\ IdleParse
    /\ IdleRemote
    /\ proto = [NewProto EXCEPT !.umodes = DictSet(@, "away", "a")]

HandleMode ==
    \E target \in ModeTargets : \E modestring \in ModeStrings :
        LET r == handle_mode(Now, proto, uplink, target, modestring)
        IN  Apply("MODE", uplink, <<target, modestring>>, r.out, <<>>)

NextMode ==
    \/ IntroduceServer
    \/ IntroduceUser
    \/ HandleMode

SpecMode == InitMode /\ [][NextMode]_vars

----------------------------------------------------------------------------
(* The remote commands of the threads of all networks.                     *)

InitRemote ==
    /\ InitNet
    /\ watch = {}
    /\ gen = IdleGen
    /\ issued = <<>>
    /\ IdleParse
    /\ IdleProto
    /\ IdleRemote

NextRemote ==
    \E t \in Threads :
        \/ RemoteStart(t)
        \/ RemoteNested(t)
        \/ RemoteCheck(t)
        \/ RemoteSet(t)
        \/ RemoteValidate(t)
        \/ RemoteInstall(t)
        \/ RemoteSave(t)
        \/ RemoteLock(t)
        \/ RemoteOverride(t)
        \/ RemoteCall(t)
        \/ RemoteRestore(t)
        \/ RemoteClear(t)

SpecRemote == InitRemote /\ [][NextRemote]_vars

\* The callers of both networks name the same third network.
InitReply ==
    /\ InitNet
    /\ watch = {}
    /\ gen = IdleGen
    /\ issued = <<>>
    /\ IdleParse
    /\ IdleProto
    /\ IdleCalls
    /\ given = {"n3"}

SpecReply == InitReply /\ [][NextRemote]_vars

----------------------------------------------------------------------------
(* The claims.                                                             *)

\* The server a text names: the server of that SID, else the server of that
\* name (in any spelling), else none.
Named(sv, t) ==
    IF t \in SKeys(sv) THEN t
    ELSE IF \E i \in DOMAIN sv : Lower(sv[i].name) = Lower(t)
         THEN sv[CHOOSE i \in DOMAIN sv : Lower(sv[i].name) = Lower(t)].sid
         ELSE NoneStr

\* The servers whose uplink chain leads to x, x among them.
RECURSIVE LeadsTo(_, _, _, _)
LeadsTo(sv, s, x, n) ==
    \/ s = x
    \/ /\ n > 0
       /\ s \in SKeys(sv)
       /\ SGet(sv, s).uplink \in SKeys(sv)
       /\ LeadsTo(sv, SGet(sv, s).uplink, x, n - 1)
Subtree(sv, x) == {s \in SKeys(sv) : LeadsTo(sv, s, x, Len(sv))}
HomedOn(sv, S) == UNION {SGet(sv, s).users : s \in S}
NoRepeat(q) == Cardinality(SeqToSet(q)) = Len(q)

\* This step is an inbound SQUIT, and one that returned a result.
SquitStep == last'.op = "SQUIT"
SquitDone == last'.op = "SQUIT" /\ last'.exc = "" /\ last'.ret # None

\* C1: in every state, for every channel c and every user u, u is a member
\* of c if and only if c is in u's channel set.
C1_MembershipConsistent ==
    /\ \A c \in DOMAIN channels : \A u \in DOMAIN users :
           u \in channels[c].users <=> c \in users[u].channels
    /\ \A u \in DOMAIN users : users[u].channels \subseteq DOMAIN channels

\* C1 witness: a PART or KICK has emptied a channel while others are joined.
C1_Witness ==
    /\ \E c \in DOMAIN channels : channels[c].users = {}
    /\ \E u \in DOMAIN users : users[u].channels # {}
    /\ Len(servers) < 2 + MaxServers

\* C2: an inbound split of a known server X, not this server and not the
\* uplink, leaves the server table without X and the servers below X, the
\* user table without the users of those servers, and the rest as it was.
C2_CascadeExact ==
    [][(/\ SquitStep
        /\ Named(servers, last'.args[1]) \in SKeys(servers) \ {sid, uplink})
       => LET x == Named(servers, last'.args[1])
              gone == Subtree(servers, x)
              lost == HomedOn(servers, gone)
          IN  /\ servers' = SelectSeq(servers, LAMBDA e : e.sid \notin gone)
              /\ users' = [u \in DOMAIN users \ lost |-> users[u]]]_vars

\* C3: the result of a split lists in affected_servers exactly the servers
\* the split removed and in users exactly the users it removed, each once.
C3_ResultListsRemoved ==
    [][SquitDone
       => /\ SeqToSet(last'.ret.affected_servers) = SKeys(servers) \ SKeys(servers')
          /\ NoRepeat(last'.ret.affected_servers)
          /\ SeqToSet(last'.ret.users) = DOMAIN users \ DOMAIN users'
          /\ NoRepeat(last'.ret.users)]_vars

\* C3 witness: a split that removed three servers and three users.
C3_Witness ==
    /\ last.op = "SQUIT" /\ last.exc = "" /\ last.ret # None
    /\ Len(last.ret.affected_servers) >= 3
    /\ Len(last.ret.users) >= 3

\* C4: an inbound split that names this server or the uplink, by SID or by
\* name, raises the protocol error, returns nothing and removes nothing.
C4_OwnOrUplinkRejected ==
    [][(SquitStep /\ Named(servers, last'.args[1]) \in {sid, uplink})
       => /\ last'.exc = "ProtocolError"
          /\ last'.ret = None
          /\ UNCHANGED <<servers, users, channels>>]_vars

\* C4 witness: the uplink, named by its server name in another spelling,
\* was refused while other servers and users were present.
C4_Witness ==
    /\ last.op = "SQUIT" /\ last.args[1] = "hub.net"
    /\ last.exc = "ProtocolError"
    /\ Len(servers) > 2 /\ DOMAIN users # {}

\* C5: an inbound split of a server that is not in the server table raises
\* nothing, returns nothing and changes nothing.
C5_UnknownIsNoOp ==
    [][(SquitStep /\ Named(servers, last'.args[1]) = NoneStr)
       => /\ last'.exc = ""
          /\ last'.ret = None
          /\ UNCHANGED <<servers, users, channels>>]_vars

\* C6: no user is in the user table whose home server is not in the server
\* table.
C6_HomeServerPresent ==
    \A u \in DOMAIN users :
        /\ HomeOf(u) \in SKeys(servers)
        /\ get_server(servers, u) = HomeOf(u)

\* C6 witness: a split removed servers and users, and users remain.
C6_Witness ==
    /\ last.op = "SQUIT" /\ last.exc = "" /\ last.ret # None
    /\ Len(last.ret.affected_servers) >= 2
    /\ last.ret.users # <<>>
    /\ DOMAIN users # {}

\* C7: the nick map of the result holds, for every listed user and every
\* channel that user was in before the split, the user's nick under that
\* channel, and no other nick.
C7_NicksOfAllAffected ==
    [][SquitDone
       => \A c \in DOMAIN channels \cup DOMAIN last'.ret.nicks :
            LET listed == IF c \in DOMAIN last'.ret.nicks THEN last'.ret.nicks[c] ELSE <<>>
                due == {u \in SeqToSet(last'.ret.users) :
                            c \in DOMAIN channels /\ u \in channels[c].users}
            IN  /\ SeqToSet(listed) = {users[u].nick : u \in due}
                /\ Len(listed) = Cardinality(due)]_vars

\* C8: the channel snapshot of the result holds every channel that existed
\* before the split, with the members it had before the split.
C8_SnapshotPreMutation ==
    [][SquitDone
       => /\ DOMAIN last'.ret.channeldata = DOMAIN channels
          /\ \A c \in DOMAIN channels :
                 last'.ret.channeldata[c].users = channels[c].users]_vars

\* The n-th suffix (from 0) of an odometer over alphabet alpha, w wide.
Odometer(alpha, w, n) ==
    [i \in 1..w |-> alpha[((n \div Pow(Len(alpha), w - i)) % Len(alpha)) + 1]]

\* C9: the first N = (alphabet size)^width identifiers are the server prefix
\* followed by the suffixes of the odometer in order, from the all-first
\* suffix on, and no two of them are equal.
C9_FirstNInOdometerOrder ==
    LET n == IF Len(issued) < Space(gen) THEN Len(issued) ELSE Space(gen)
    IN  /\ \A k \in 1..n :
               issued[k] = <<gen.sid>> \o Odometer(gen.allowedchars, gen.length, k - 1)
        /\ \A j, k \in 1..n : j # k => issued[j] # issued[k]

\* C9 witness: a generator of width two or more has issued all N.
C9_Witness ==
    /\ gen.length >= 2
    /\ Len(gen.allowedchars) >= 3
    /\ Len(issued) = Space(gen)

\* C10: once N identifiers are issued the next call raises and returns
\* none, and no identifier is returned twice.
C10_OverflowReported ==
    /\ Len(issued) <= Space(gen)
    /\ NoRepeat(issued)

\* The first place from 2 on of a field that begins with ':', 0 if none.
FirstMarker(args) ==
    IF \E i \in 2..Len(args) : StartsWith(args[i], ":")
    THEN CHOOSE i \in 2..Len(args) :
             StartsWith(args[i], ":") /\ \A j \in 2..(i-1) : ~StartsWith(args[j], ":")
    ELSE 0

\* C11: parse_args returns the fields unchanged up to the first field after
\* field 0 that begins with ':'; that field and the fields after it, joined
\* by single spaces and without the one leading ':', are the last argument;
\* a ':' at the start of field 0 is not the marker.
C11_ParseArgsRestOfLine ==
    parsed.fn = "parse_args"
    => /\ parsed.exc = ""
       /\ LET k == FirstMarker(line)
          IN  IF k = 0 THEN parsed.val = line
              ELSE /\ Len(parsed.val) = k
                   /\ \A i \in 1..(k-1) : parsed.val[i] = line[i]
                   /\ <<":">> \o parsed.val[k] = JoinSpace(SubSeq(line, k, Len(line)))

\* C11 witness: field 0 begins with ':', and so do the two fields after it.
C11_Witness ==
    /\ parsed.fn = "parse_args"
    /\ Len(line) = 3
    /\ \A i \in 1..3 : StartsWith(line[i], ":")
    /\ Len(parsed.val) = 2
    /\ parsed.val[1] = line[1]

\* C12: neither parser raises on a line of one field or more, and
\* parse_prefixed_args returns what parse_args returns with only a leading
\* ':' taken from argument zero.
C12_ParsersNeverRaise ==
    (parsed.fn # "" /\ Len(line) >= 1)
    => /\ parsed.exc = ""
       /\ parsed.fn = "parse_prefixed_args"
          => LET r == parse_args(line)
             IN  /\ Len(parsed.val) = Len(r)
                 /\ \A i \in 2..Len(r) : parsed.val[i] = r[i]
                 /\ parsed.val[1] = IF StartsWith(r[1], ":") THEN Tail(r[1]) ELSE r[1]

\* A token of the shape (letters)symbols: the place of its ')', 0 if it has
\* not that shape.
ShapeClose(t) ==
    IF /\ Len(t) >= 3
       /\ t[1] = "("
       /\ \E j \in 3..Len(t) : t[j] = ")" /\ \A k \in 2..(j-1) : IsLetter(t[k])
    THEN CHOOSE j \in 3..Len(t) : t[j] = ")" /\ \A k \in 2..(j-1) : IsLetter(t[k])
    ELSE 0

\* C13: a token (letters)symbols with as many symbols as letters gives the
\* map from each letter to the symbol at its place; every other token raises
\* a parse error and gives no map.
C13_PrefixesOrParseError ==
    parsed.fn = "parse_isupport_prefixes"
    => LET t == line[1]
           j == ShapeClose(t)
       IN  IF j # 0 /\ Len(t) - j = j - 2
           THEN /\ parsed.exc = ""
                /\ DOMAIN parsed.val = {t[k] : k \in 2..(j-1)}
                /\ \A k \in 2..(j-1) : parsed.val[t[k]] = t[j + k - 1]
           ELSE /\ parsed.exc # ""
                /\ parsed.val = None

\* The entity a text names: the server of that SID or name, else the user
\* of that UID or nick, else none.
NamedEntity(t) ==
    IF Named(servers, t) # NoneStr THEN Named(servers, t)
    ELSE IF t \in DOMAIN users THEN t
    ELSE nick_to_uid(users, t)

\* C14: a line whose sender is a client or a server of this side calls no
\* handler, changes no state and gives no hook, whatever its command.
C14_InternalSenderDropped ==
    \A data \in EventLines :
        LET r == handle_events(Now, data)
            who == NamedEntity(data.fields[1])
        IN  (is_internal_client(servers, who) \/ is_internal_server(servers, who))
            => /\ r.func = ""
               /\ r.ret = None
               /\ r.st = Now

\* C14 witness: a client of this side is in #a, and a PART and an ENCAP
\* line in its name are among the lines the uplink may send.
C14_Witness ==
    /\ "0AAAA" \in DOMAIN users
    /\ "#a" \in DOMAIN channels
    /\ "0AAAA" \in channels["#a"].users
    /\ Line(TRUE, <<"0AAAA", "PART", "#a">>) \in EventLines
    /\ Line(TRUE, <<"pylink", "ENCAP", "*", "QUIT", "bye">>) \in EventLines
    /\ handle_events(Now, Line(TRUE, <<"0AAAA", "PART", "#a">>)).func = ""

\* C15: a line without the leading sender marker has the uplink as its
\* sender and its first field as its command, whatever the tables hold.
C15_NoPrefixMeansUplink ==
    \A data \in EventLines :
        LET r == handle_events(Now, data)
        IN  ~data.colon
            => /\ r.sender = uplink
               /\ (r.command # "" /\ Upper(data.fields[1]) # "ENCAP")
                  => r.command = Upper(data.fields[1])

\* C16: a line whose command is not an inbound command raises nothing,
\* gives no hook and leaves the state as it was.
C16_UnknownCommandIgnored ==
    \A data \in EventLines :
        LET r == handle_events(Now, data)
        IN  (r.command # "" /\ Lower(r.command) \notin InboundCommands)
            => /\ r.exc = ""
               /\ r.ret = None
               /\ r.st = Now

\* A builder refused: the lookup failure, no line, the state as it was.
Refused(r) == r.out.exc = "LookupError" /\ r.sent = <<>> /\ r.out.st = Now

\* C17: every outbound builder called for an actor that is no client (for
\* kick, notice, topic and squit: no client and no server) of this side
\* raises the lookup failure, sends no line and changes no state.
C17_OutboundNeedsOwnActor ==
    \A a \in OutActors : \A c \in Chans : \A t \in AllUids :
        /\ ~is_internal_client(servers, a)
           => /\ Refused(invite(Now, a, t, c))
              /\ Refused(part(Now, a, c, ""))
              /\ Refused(quit(Now, a, "bye"))
              /\ Refused(message(Now, a, t, "hi"))
        /\ ~(is_internal_client(servers, a) \/ is_internal_server(servers, a))
           => /\ Refused(kick(Now, a, c, t, ""))
              /\ Refused(notice(Now, a, t, "hi"))
              /\ Refused(topic(Now, a, c, "t"))
              /\ \A x \in AllSids : Refused(squit(Now, a, x, "bye"))

\* The state an outbound call of an actor of this side leaves is the state
\* the inbound handler of that command leaves, for kick targets in T.
OutboundAsInbound(T) ==
    \A a \in OutActors : \A c \in Chans :
        /\ is_internal_client(servers, a)
           => /\ part(Now, a, c, "").out.st = handle_part(Now, a, <<c>>, "").st
              /\ quit(Now, a, "bye").out.st = handle_quit(Now, a, "bye").st
        /\ (is_internal_client(servers, a) \/ is_internal_server(servers, a))
           => /\ \A t \in T :
                     kick(Now, a, c, t, "").out.st = handle_kick(Now, a, c, t, "").st
              /\ topic(Now, a, c, "t").out.st = handle_topic(Now, a, c, "t").st
              /\ \A x \in AllSids :
                     squit(Now, a, x, "bye").out.st = _squit(Now, x, {}).st

\* C18 as stated: outbound part, kick, quit, topic and squit of an actor of
\* this side leave the state the inbound handler leaves for the same actor,
\* channel and target, a target being any text an inbound KICK may carry.
C18_OutboundEqualsInbound == OutboundAsInbound(UserTargets)

\* C18 amended: the same, for kick targets given as UIDs.
C18_OutboundEqualsInboundByUid == OutboundAsInbound(AllUids)

\* C18 witness: a client of this side and a remote user share #a, so that
\* a KICK of the one by the other changes the membership.
C18_Witness ==
    /\ "#a" \in DOMAIN channels
    /\ {"0AAAA", "ACAAA"} \subseteq channels["#a"].users
    /\ kick(Now, "0AAAA", "#a", "ACAAA", "").out.st # Now
    /\ handle_kick(Now, "0AAAA", "#a", "ACAAA", "").st # Now

\* The remote commands that have passed the in-flight check of line 94.
InFlight ==
    {<<t, i>> \in Threads \X (1..MaxDepth + 1) :
        i <= Len(stacks[t]) /\ stacks[t][i].pc # "check"}

\* C19: at most one remote command has passed the in-flight check at any
\* time, whatever the interleaving of the threads of the networks and
\* whether or not a command is started from inside another; an attempt
\* made while one is in flight is rejected at once and changes no reply
\* function.
C19_OneInFlight ==
    [][/\ Cardinality(InFlight) <= 1
       /\ \A t \in Threads :
              (At(t, "check") /\ stacks'[t] # stacks[t] /\ InFlight # {})
                  => /\ stacks' = Return(t)
                     /\ lastexit' = "nested"
                     /\ reply' = reply]_vars

AllIdle == \A t \in Threads : stacks[t] = <<>>

\* The call of thread t that has set the flag ends in this step.
ExitsHavingSet(t) ==
    /\ stacks[t] # <<>>
    /\ Top(t).pc \notin {"check", "set"}
    /\ stacks'[t] # stacks[t]
    /\ Len(stacks'[t]) < Len(stacks[t])

\* C20: a remote command that has set the in-flight flag leaves it clear
\* when it ends, on every exit path; so the flag is clear whenever no
\* remote command is executing, and a remote command given then passes
\* the in-flight check.
C20_FlagClearedOnEveryExit ==
    [][/\ \A t \in Threads : ExitsHavingSet(t) => ~REMOTE_IN_USE'
       /\ AllIdle' => ~REMOTE_IN_USE'
       /\ \A t \in Threads :
              (/\ At(t, "check")
               /\ \A u \in Threads \ {t} : stacks[u] = <<>>
               /\ Len(stacks[t]) = 1
               /\ stacks'[t] # stacks[t])
                  => stacks'[t][1].pc = "set"]_vars

\* A remote command has ended by the exception of the command it ran, and
\* nothing is executing.
C20_Witness ==
    /\ AllIdle
    /\ lastexit = "command raised"
    /\ ~REMOTE_IN_USE

\* The call of thread t ends in this step by line 171.
EndsAfterCommand(t) == At(t, "clear") /\ stacks'[t] # stacks[t]

\* C21: the reply function of a network changes only while that network's
\* reply lock is held; when a remote command ends after the command it
\* ran has returned or raised, the reply function of the remote network is
\* the one that network had when the remote command began; and the router
\* refuses a reply whose network is the origin network.
C21_ReplyRestored ==
    [][/\ \A n \in Nets : reply'[n] # reply[n] => replylock[n] # NoneStr
       /\ \A t \in Threads :
              EndsAfterCommand(t) => reply'[Top(t).net] = Top(t).entry
       /\ \A n \in Nets : _remote_reply(n, n).exc = "AssertionError"]_vars

\* The user a KICK of target names is no member of channel.
NotMember(st, channel, target) ==
    \/ channel \notin DOMAIN st.channels
    \/ _get_UID(st.users, target) \notin st.channels[channel].users

\* C22: an inbound KICK whose target is no member of the named channel (a
\* known user outside it, a nickname of no user, or a channel that does
\* not exist) does not raise and leaves users, channels and servers as
\* they were.
C22_KickOfNonMemberIsNoOp ==
    \A channel \in Chans : \A target \in UserTargets :
        NotMember(Now, channel, target)
            => LET r == handle_kick(Now, uplink, channel, target, "")
               IN  r.exc = "" /\ r.st = Now

\* The channels of chanlist that hold source, each once, in the order in
\* which chanlist names them first.
RECURSIVE MemberChannels(_, _, _, _)
MemberChannels(st, source, chanlist, seen) ==
    IF chanlist = <<>> THEN <<>>
    ELSE LET c == Head(chanlist)
             member == /\ c \notin seen
                       /\ c \in DOMAIN st.channels
                       /\ source \in st.channels[c].users
         IN  (IF member THEN <<c>> ELSE <<>>)
                 \o MemberChannels(st, source, Tail(chanlist), seen \cup {c})

\* C23: an inbound PART of a list of channels does not raise; its hook
\* lists the named channels that held the source, in the order given, and
\* there is no hook when there is none; afterwards the source is in none
\* of the named channels.
C23_PartHookListsChannelsLeft ==
    \A source \in AllUids : \A chanlist \in PartLists :
        LET r == handle_part(Now, source, chanlist, "")
            left == MemberChannels(Now, source, chanlist, {})
        IN  /\ r.exc = ""
            /\ IF left = <<>> THEN r.ret = None
               ELSE r.ret # None /\ r.ret.channels = left
            /\ \A i \in DOMAIN chanlist :
                   chanlist[i] \in DOMAIN r.st.channels
                       => source \notin r.st.channels[chanlist[i]].users

\* C24: every inbound KILL returns a hook with the target and a kill
\* message and does not raise, for every shape of the reason; a target
\* that is in the user table is removed as by QUIT, and one that is not
\* leaves the state as it was.
C24_KillAlwaysHooks ==
    \A target \in UserTargets : \A reason \in KillReasons :
        LET r == handle_kill(Now, uplink, target, reason)
            killed == _get_UID(users, target)
        IN  /\ r.exc = ""
            /\ r.ret # None
            /\ r.ret.target = killed
            /\ r.st = IF killed \in DOMAIN users
                      THEN handle_quit(Now, killed, "bye").st
                      ELSE Now

\* The reason is raw: its first word holds a '!'.
IsRawKill(reason) ==
    \E i \in DOMAIN SplitSpace(reason)[1] : SplitSpace(reason)[1][i] = "!"

\* The message between the brackets of a raw reason.
Bracketed(reason) == SliceInner(JoinSpace(Tail(SplitSpace(reason))))

\* text is msg with the display name before it.
NamePrefixed(text, name, msg) ==
    /\ Len(text) > Len(msg)
    /\ text[1] = name
    /\ SubSeq(text, Len(text) - Len(msg) + 1, Len(text)) = msg

\* C25: the hook of a KILL with a raw reason carries the bracketed message
\* with the display name of the killing entity before it; the hook of any
\* other KILL carries the reason as it came.
C25_KillTextNamesKiller ==
    \A target \in UserTargets : \A reason \in KillReasons :
        LET r == handle_kill(Now, uplink, target, reason)
        IN  r.exc = ""
                => IF IsRawKill(reason)
                   THEN NamePrefixed(r.ret.text, get_friendly_name(Now, uplink),
                                     Bracketed(reason))
                   ELSE r.ret.text = reason

\* C26: while the 005 handling is switched off, an inbound 005 line changes
\* none of the capability map, the mode tables, the prefix table, the case
\* mapping, the nick length and the protocol capabilities, raises nothing
\* and returns no hook.
C26_Spurious005Ignored ==
    [][~proto._use_builtin_005_handling
           => /\ proto' = proto
              /\ last'.exc = ""
              /\ last'.ret = None]_vars

\* A 005 line that announces a nick length has come to a protocol object
\* with the 005 handling off.
C26_Witness ==
    /\ ~proto._use_builtin_005_handling
    /\ last.op = "005"
    /\ last.args[2] = Token("NICKLEN", "21")

\* The server half names a server that is here, the left side is a user
\* that is here, and that server is the user's.
OnNamedServer(st, raw) ==
    /\ \E i \in DOMAIN st.servers : Lower(st.servers[i].name) = Lower(raw.server)
    /\ _get_UID(st.users, raw.left) \in DOMAIN st.users
    /\ Lower(SGet(st.servers, get_server(st.servers, _get_UID(st.users, raw.left))).name)
           = Lower(raw.server)

\* C27: a PRIVMSG or NOTICE to target@server whose left side is no channel
\* is hooked only if the server is here and is the home of the user the
\* left side names; otherwise it is not hooked and a 401 goes back to the
\* sender.
C27_UserAtServerChecked ==
    \A source \in MsgSenders : \A raw \in MsgTargets :
        (raw.server # NoneStr /\ ~is_channel(LStripPrefixes(proto, raw.left)))
            => LET r == handle_privmsg(Now, proto, source, raw, "hi")
               IN  /\ r.out.exc = ""
                   /\ r.out.ret # None => OnNamedServer(Now, raw)
                   /\ ~OnNamedServer(Now, raw)
                          => /\ r.out.ret = None
                             /\ r.sent = <<<<sid, "401", source, raw, "No such nick">>>>

\* The user has the away mode of the dialect.
HasAwayMode(st, u) == proto.umodes["away"] \in st.users[u].modes

\* The AWAY hooks among the hooks a handler called.
AwayHooks(hooks) == {i \in DOMAIN hooks : hooks[i][2] = "AWAY"}

\* C28: after any sequence of mode changes, a mode change on a user calls
\* an AWAY hook exactly when it flips the user's away mode.
C28_AwayHookOnFlipOnly ==
    \A target \in ModeTargets : \A modestring \in ModeStrings :
        LET uid == _get_UID(users, target)
            r == handle_mode(Now, proto, uplink, target, modestring)
        IN  uid \in DOMAIN users
                => (AwayHooks(r.hooks) # {}
                        <=> HasAwayMode(Now, uid) # HasAwayMode(r.out.st, uid))

\* The words after the sender of a line that names an inbound command.
NamesInboundCommand(t) == t # <<>> /\ Lower(Upper(t[1])) \in InboundCommands

\* C29: a line ':S ENCAP * CMD args' leaves the state and gives the hook
\* that ':S CMD args' leaves and gives, for every inbound command CMD in
\* any letter case.
C29_EncapAsDirect ==
    \A s \in EventSenders : \A t \in {u \in EventTails : NamesInboundCommand(u)} :
        LET e == handle_events(Now, Line(TRUE, <<s, "ENCAP", "*">> \o t))
            d == handle_events(Now, Line(TRUE, <<s>> \o t))
        IN  /\ e.exc = d.exc
            /\ e.st = d.st
            /\ e.ret = d.ret

\* C30 as stated: the dispatcher gives a hook exactly when the handler it
\* called returned a result that is neither None nor empty.
C30_HookIffResultNotEmpty ==
    \A data \in EventLines :
        LET r == handle_events(Now, data)
        IN  (r.func # "" /\ r.exc = "")
            => /\ r.ret # None <=> (r.parsed_args # None /\ r.parsed_args # EmptyDict)
               /\ r.ret # None => r.ret = <<r.sender, r.command, r.parsed_args>>

\* C30: the dispatcher gives a hook (sender, command, result) exactly when
\* the handler it called returned a result other than None; an empty
\* result, as handle_version returns, is given as a hook too.
C30_HookIffResultNotNone ==
    \A data \in EventLines :
        LET r == handle_events(Now, data)
        IN  (r.func # "" /\ r.exc = "")
            => /\ r.ret # None <=> r.parsed_args # None
               /\ r.ret # None => r.ret = <<r.sender, r.command, r.parsed_args>>

\* A user is in a channel, a PART of a channel it is not in gives no hook,
\* and a VERSION line gives a hook with no data.
C30_Witness ==
    /\ "ACAAA" \in DOMAIN users
    /\ "#a" \in DOMAIN channels
    /\ "ACAAA" \notin channels["#a"].users
    /\ Line(TRUE, <<"ACAAA", "PART", "#a">>) \in EventLines
    /\ handle_events(Now, Line(TRUE, <<"ACAAA", "PART", "#a">>)).func = "part"
    /\ handle_events(Now, Line(TRUE, <<"ACAAA", "PART", "#a">>)).ret = None
    /\ Line(TRUE, <<"0B", "VERSION">>) \in EventLines
    /\ handle_events(Now, Line(TRUE, <<"0B", "VERSION">>)).ret = <<"0B", "VERSION", EmptyDict>>

\* The shape '(letters)symbols' of a PREFIX value.
HasPrefixShape(text) ==
    /\ Len(text) >= 3
    /\ text[1] = "("
    /\ \E j \in 3..Len(text) :
           /\ text[j] = ")"
           /\ \A k \in 2..(j-1) : IsLetter(text[k])

\* A token that cannot be read: mode classes that are not four, a PREFIX
\* of another shape, a NICKLEN without a value.
MalformedToken(t) ==
    \/ t.key \in {"CHANMODES", "USERMODES"} /\ Len(t.value) # 4
    \/ t.key = "PREFIX" /\ ~HasPrefixShape(t.value)
    \/ t.key = "NICKLEN" /\ t.value = ""

\* The 005 line without the tokens that cannot be read.
WithoutMalformed(args) ==
    <<args[1]>>
        \o SelectSeq(SubSeq(args, 2, Len(args) - 1), LAMBDA t : ~MalformedToken(t))
        \o <<args[Len(args)]>>

\* Lines with one token that cannot be read among tokens that can.
MixedLines005 ==
    {<<"pylink", Token("CHANMODES", <<"b", "k">>), Token("STATUSMSG", "@+"), "are supported">>,
     <<"pylink", Token("USERMODES", <<"s", "i">>), Token("CASEMAPPING", "ascii"),
       "are supported">>,
     <<"pylink", Token("INVEX", "I"), Token("PREFIX", <<"o", "@">>), Token("DEAF", ""),
       "are supported">>,
     <<"pylink", Token("NICKLEN", ""), Token("CALLERID", "g"), "are supported">>}

\* The fields a 005 line sets from its tokens.
CapFields(p) ==
    <<p.cmodes, p.umodes, p.prefixmodes, p.casemapping, p.maxnicklen, p.protocol_caps>>

\* C31: with the 005 handling on, a 005 line raises nothing, whatever its
\* tokens, and sets the fields that the line without its malformed tokens
\* sets; the protocol object takes later lines as before.
C31_MalformedTokenSkipped ==
    \A args \in Lines005 \cup MixedLines005 :
        proto._use_builtin_005_handling
            => LET r == handle_005(proto, args)
                   good == handle_005(proto, WithoutMalformed(args))
               IN  /\ r.exc = ""
                   /\ CapFields(r.proto) = CapFields(good.proto)
                   /\ r.proto._use_builtin_005_handling

\* No server and no user of st is missing in the state a call left.
NothingRemoved(st, after) ==
    /\ SKeys(after.servers) = SKeys(st.servers)
    /\ DOMAIN after.users = DOMAIN st.users
    /\ \A k \in SKeys(st.servers) :
           SGet(after.servers, k).users = SGet(st.servers, k).users

EndsHavingOverridden(t) ==
    /\ stacks[t] # <<>>
    /\ Top(t).pc \in {"install", "clear"}
    /\ Len(stacks'[t]) < Len(stacks[t])

\* C33: when a remote command ends, by a return or by an exception,
\* called_in, called_by and the account of the service client of the
\* remote network are what they were when the remote command began.
C33_OverriddenFieldsRestored ==
    [][\A t \in Threads :
           EndsHavingOverridden(t) => overridden'[Top(t).net] = Top(t).before]_vars

====
